---- MODULE Spec2Model ----
(***************************************************************************)
(* A model of the YouTube trending-data visualisation: the DataLoader      *)
(* class of src/js/data-loader.js (CSV parsing, category resolution, the   *)
(* per-country fetch fan-out and the aggregation methods), and the         *)
(* YouTubeDataVisualization class of src/unnamed/part_000 (loading, the    *)
(* switch between charts and the debounced resize handler).                *)
(*                                                                         *)
(* Representation.  A JavaScript string is a sequence of one-character     *)
(* strings.  A text is kept as the sequence of its lines, i.e. the text is *)
(* the lines joined by "\n"; this is a bijection between texts and         *)
(* non-empty line lists, so trim() and split('\n') are modelled exactly on *)
(* it.  The value undefined is the one-element sequence Undefined, which   *)
(* differs from every string.  A number is an integer, NaN is the record   *)
(* field nan; a quotient is kept as a reduced fraction.  A Date is a       *)
(* record [kind, t] with t the local day number (days since 1970-01-01).   *)
(***************************************************************************)
EXTENDS Integers, Sequences, FiniteSets, TLC

VARIABLES
    categories,   \* DataLoader.categories: country -> (category id -> title)
    videoData,    \* DataLoader.videoData: country -> sequence of rows
    videoKeys,    \* Object.keys(this.videoData): its countries in insertion order
    isLoaded,     \* DataLoader.isLoaded
    catFetch,     \* per country: position of its loadCategories callback
    vidFetch,     \* per country: position of its loadVideoData callback
    results,      \* the results array loadVideoData's Promise.all resolves to
    pc,           \* position of DataLoader.init
    op,           \* the last call made: name of the method
    arg,          \* its arguments
    ret,          \* its return value
    again,        \* what the same call returns when it is made once more
    currentVisualization,  \* YouTubeDataVisualization.currentVisualization
    isDataLoaded, \* YouTubeDataVisualization.isDataLoaded
    resizeTimeout,\* YouTubeDataVisualization.resizeTimeout: a timer id, 0 for undefined
    timers,       \* the browser's pending timers: records [id, left]
    seen          \* what has been observed of the application so far

vars == <<categories, videoData, videoKeys, isLoaded, catFetch, vidFetch, results, pc, op, arg, ret,
          again, currentVisualization, isDataLoaded, resizeTimeout, timers, seen>>

App == <<currentVisualization, isDataLoaded, resizeTimeout, timers, seen>>

\* no second call has been made; the outcome of the second call
NotCalled == <<>>

Second(outcome) == <<outcome>>

-----------------------------------------------------------------------------
(* Strings *)

Undefined == <<"undefined">>

\* the application object as its constructor leaves it, no timer set.  seen
\* holds the number of events handled (clicks and resizes), the last thing
\* that ran, the chart the last click asked for, the number of clicks refused
\* while the data was loading, the number of charts rendered, the
\* milliseconds since the last
\* resize event that set a timer (up to the delay), the number of timer
\* callbacks run since that event, and the number of resize events the
\* latest timer stands for
Constructed ==
    /\ currentVisualization = "overview"
    /\ isDataLoaded = FALSE
    /\ resizeTimeout = 0
    /\ timers = {}
    /\ seen = [events |-> 0, last |-> "none", asked |-> "none", refused |-> 0, renders |-> 0,
               quiet |-> 0, calls |-> 0, burst |-> 0]

Whitespace == {" ", "\t", "\r"}

Digits == <<"0", "1", "2", "3", "4", "5", "6", "7", "8", "9">>

IsDigit(c) == \E d \in 1..Len(Digits) : Digits[d] = c

DigitVal(c) == (CHOOSE d \in 1..Len(Digits) : Digits[d] = c) - 1

Min(a, b) == IF a <= b THEN a ELSE b

\* String.prototype.trim
Trim(s) ==
    LET keep == {i \in 1..Len(s) : s[i] \notin Whitespace}
    IN  IF keep = {} THEN <<>>
        ELSE LET lo == CHOOSE i \in keep : \A j \in keep : i <= j
                 hi == CHOOSE i \in keep : \A j \in keep : j <= i
             IN  SubSeq(s, lo, hi)

TrimStart(s) ==
    LET keep == {i \in 1..Len(s) : s[i] \notin Whitespace}
    IN  IF keep = {} THEN <<>>
        ELSE SubSeq(s, CHOOSE i \in keep : \A j \in keep : i <= j, Len(s))

TrimEnd(s) ==
    LET keep == {i \in 1..Len(s) : s[i] \notin Whitespace}
    IN  IF keep = {} THEN <<>>
        ELSE SubSeq(s, 1, CHOOSE i \in keep : \A j \in keep : j <= i)

\* String.prototype.split(sep) for a one-character separator: the pieces
\* between one occurrence of sep (or the start) and the next (or the end)
Split(s, sep) ==
    LET cuts   == {i \in 1..Len(s) : s[i] = sep}
        sorted == [k \in 1..Cardinality(cuts) |->
                     CHOOSE i \in cuts : Cardinality({j \in cuts : j < i}) = k - 1]
        from(k) == IF k = 1 THEN 1 ELSE sorted[k - 1] + 1
        to(k)   == IF k > Len(sorted) THEN Len(s) ELSE sorted[k] - 1
    IN  [k \in 1..(Cardinality(cuts) + 1) |-> SubSeq(s, from(k), to(k))]

\* parseInt(s) for a string s (radix 10; the alphabet has no hex prefix):
\* leading whitespace, an optional sign, then the longest run of digits.
RECURSIVE DigitsFrom(_, _, _)
DigitsFrom(s, i, acc) ==
    IF i > Len(s) \/ ~IsDigit(s[i]) THEN acc
    ELSE DigitsFrom(s, i + 1, 10 * acc + DigitVal(s[i]))

NaN == [nan |-> TRUE, v |-> 0]

Num(n) == [nan |-> FALSE, v |-> n]

parseInt(s) ==
    IF s = Undefined THEN NaN
    ELSE LET t    == TrimStart(s)
             neg  == Len(t) > 0 /\ t[1] = "-"
             sgn  == Len(t) > 0 /\ t[1] \in {"-", "+"}
             from == IF sgn THEN 2 ELSE 1
         IN  IF from > Len(t) \/ ~IsDigit(t[from]) THEN NaN
             ELSE Num((IF neg THEN -1 ELSE 1) * DigitsFrom(t, from, 0))

\* the idiom  parseInt(x) || 0 : NaN and 0 give 0, any other number itself
OrZero(p) == IF p.nan \/ p.v = 0 THEN 0 ELSE p.v

-----------------------------------------------------------------------------
(* Dates: the Date constructor with (year, monthIndex, day) and its getters *)

\* day number of the civil date y-m-d, m in 1..12; d may run past the month
DaysFromCivil(y, m, d) ==
    LET yy  == IF m <= 2 THEN y - 1 ELSE y
        era == yy \div 400
        yoe == yy - era * 400
        mp  == IF m > 2 THEN m - 3 ELSE m + 9
        doy == (153 * mp + 2) \div 5 + d - 1
        doe == yoe * 365 + yoe \div 4 - yoe \div 100 + doy
    IN  era * 146097 + doe - 719468

NullDate == [kind |-> "null", t |-> 0]

InvalidDate == [kind |-> "invalid", t |-> 0]

\* new Date(year, monthIndex, day), local time; a NaN argument gives an Invalid Date
NewDate(year, monthIndex, day) ==
    IF year.nan \/ monthIndex.nan \/ day.nan THEN InvalidDate
    ELSE LET yr == IF year.v >= 0 /\ year.v <= 99 THEN 1900 + year.v ELSE year.v
             ym == yr + monthIndex.v \div 12
             mn == monthIndex.v % 12
         IN  [kind |-> "date", t |-> DaysFromCivil(ym, mn + 1, 1) + day.v - 1]

\* the civil date of a day number: Date.prototype.getFullYear / getMonth / getDate
CivilFromDays(t) ==
    LET z   == t + 719468
        era == z \div 146097
        doe == z - era * 146097
        yoe == (doe - doe \div 1460 + doe \div 36524 - doe \div 146096) \div 365
        doy == doe - (365 * yoe + yoe \div 4 - yoe \div 100)
        mp  == (5 * doy + 2) \div 153
        d   == doy - (153 * mp + 2) \div 5 + 1
        m   == IF mp < 10 THEN mp + 3 ELSE mp - 9
        y   == yoe + era * 400 + (IF m <= 2 THEN 1 ELSE 0)
    IN  [year |-> y, month |-> m, day |-> d]

\* a Date used as a condition: null is falsy, every Date object is truthy
Truthy(date) == date.kind # "null"

-----------------------------------------------------------------------------
(* DataLoader: the parser *)

\* the body of parseCSVLine's loop as a mutant: every comma ends a field
parseCSVLineStepNoQuotes(st, char) ==
    IF char = "\"" THEN [st EXCEPT !.inQuotes = ~st.inQuotes]
    ELSE IF char = ","
    THEN [st EXCEPT !.result = Append(st.result, st.current), !.current = <<>>]
    ELSE [st EXCEPT !.current = Append(st.current, char)]

\* the body of parseCSVLine's loop for one character: st holds the loop's
\* variables result, current and inQuotes
parseCSVLineStep(st, char) ==
    IF char = "\"" THEN [st EXCEPT !.inQuotes = ~st.inQuotes]
    ELSE IF char = "," /\ ~st.inQuotes
    THEN [st EXCEPT !.result = Append(st.result, st.current), !.current = <<>>]
    ELSE [st EXCEPT !.current = Append(st.current, char)]

\* the loop of parseCSVLine over line[lo..hi], entered with the variables st.
\* The characters are taken in order; a long range is run one half after the
\* other, and the comparison makes the first half's variables a value before
\* the second half is entered.
RECURSIVE parseCSVLineLoop(_, _, _, _)
parseCSVLineLoop(line, lo, hi, st) ==
    IF lo > hi THEN st
    ELSE IF lo = hi THEN parseCSVLineStep(st, line[lo])
    ELSE LET mid  == (lo + hi) \div 2
             half == parseCSVLineLoop(line, lo, mid, st)
         IN  IF half = st THEN parseCSVLineLoop(line, mid + 1, hi, st)
             ELSE parseCSVLineLoop(line, mid + 1, hi, half)

parseCSVLine(line) ==
    LET st == parseCSVLineLoop(line, 1, Len(line),
                               [result |-> <<>>, current |-> <<>>, inQuotes |-> FALSE])
    IN  Append(st.result, st.current)

\* 2000 + parseInt(x) and parseInt(x) - 1 keep NaN
AddNum(p, k) == IF p.nan THEN NaN ELSE Num(p.v + k)

\* parseTrendingDate as a mutant: the parts read as YY.MM.DD
parseTrendingDateMonthFirst(dateStr) ==
    LET parts == Split(dateStr, ".")
    IN  IF Len(parts) = 3
        THEN LET year  == AddNum(parseInt(parts[1]), 2000)
                 month == parseInt(parts[2])
                 day   == parseInt(parts[3])
             IN  NewDate(year, AddNum(month, -1), day)
        ELSE NullDate

parseTrendingDate(dateStr) ==
    LET parts == Split(dateStr, ".")
    IN  IF Len(parts) = 3
        THEN LET year  == AddNum(parseInt(parts[1]), 2000)
                 day   == parseInt(parts[2])
                 month == parseInt(parts[3])
             IN  NewDate(year, AddNum(month, -1), day)
        ELSE NullDate

\* the property names of a row (header names and the names parseCSV adds)
K_video_id == <<"v", "i", "d", "e", "o", "_", "i", "d">>

K_title == <<"t", "i", "t", "l", "e">>

K_channel_title == <<"c", "h", "a", "n", "n", "e", "l", "_", "t", "i", "t", "l", "e">>

K_category_id == <<"c", "a", "t", "e", "g", "o", "r", "y", "_", "i", "d">>

K_publish_time == <<"p", "u", "b", "l", "i", "s", "h", "_", "t", "i", "m", "e">>

K_trending_date == <<"t", "r", "e", "n", "d", "i", "n", "g", "_", "d", "a", "t", "e">>

K_tags == <<"t", "a", "g", "s">>

K_views == <<"v", "i", "e", "w", "s">>

K_likes == <<"l", "i", "k", "e", "s">>

K_dislikes == <<"d", "i", "s", "l", "i", "k", "e", "s">>

K_comment_count == <<"c", "o", "m", "m", "e", "n", "t", "_", "c", "o", "u", "n", "t">>

K_country == <<"c", "o", "u", "n", "t", "r", "y">>

K_category_name == <<"c", "a", "t", "e", "g", "o", "r", "y", "_", "n", "a", "m", "e">>

K_trending_date_parsed == <<"t", "r", "e", "n", "d", "i", "n", "g", "_", "d", "a", "t", "e", "_", "p", "a", "r", "s", "e", "d">>

S_Unknown == <<"U", "n", "k", "n", "o", "w", "n">>

\* row[k], undefined when the row has no property k
Get(row, k) == IF k \in DOMAIN row THEN row[k] ELSE Undefined

\* row[k] = v
Put(row, k, v) == [x \in DOMAIN row \cup {k} |-> IF x = k THEN v ELSE row[x]]

\* processCategoryData: data is [hasItems, items], items a sequence of [id, title];
\* a later item with the same id overwrites an earlier one
processCategoryData(data) ==
    IF data.hasItems
    THEN LET ids == {data.items[i].id : i \in 1..Len(data.items)}
             last(id) == CHOOSE i \in 1..Len(data.items) :
                            /\ data.items[i].id = id
                            /\ \A j \in 1..Len(data.items) : data.items[j].id = id => j <= i
         IN  [id \in ids |-> data.items[last(id)].title]
    ELSE <<>>

\* CategoryName as a mutant: no fallback when the country has no map
CategoryNameNoFallback(cats, country, id) ==
    IF country \in DOMAIN cats /\ id \in DOMAIN cats[country] /\ cats[country][id] # <<>>
    THEN cats[country][id]
    ELSE IF country \in DOMAIN cats THEN S_Unknown ELSE Undefined

\* this.categories[country] ? this.categories[country][id] || 'Unknown' : 'Unknown'
CategoryName(cats, country, id) ==
    IF country \in DOMAIN cats
    THEN IF id \in DOMAIN cats[country] /\ cats[country][id] # <<>>
         THEN cats[country][id]
         ELSE S_Unknown
    ELSE S_Unknown

\* the headers.forEach of parseCSV: row[header.trim()] = values[index] ? values[index].trim() : ''
HeaderRow(headers, values) ==
    LET names == {Trim(headers[i]) : i \in 1..Len(headers)}
        last(n) == CHOOSE i \in 1..Len(headers) :
                      /\ Trim(headers[i]) = n
                      /\ \A j \in 1..Len(headers) : Trim(headers[j]) = n => j <= i
    IN  [n \in names |-> Trim(values[last(n)])]

\* the body of parseCSV's loop for one kept line (lines 71-95)
MakeRow(headers, values, country, cats) ==
    LET r0 == HeaderRow(headers, values)
        r1 == Put(r0, K_country, country)
        r2 == Put(r1, K_views, OrZero(parseInt(Get(r1, K_views))))
        r3 == Put(r2, K_likes, OrZero(parseInt(Get(r2, K_likes))))
        r4 == Put(r3, K_dislikes, OrZero(parseInt(Get(r3, K_dislikes))))
        r5 == Put(r4, K_comment_count, OrZero(parseInt(Get(r4, K_comment_count))))
        r6 == Put(r5, K_category_id, OrZero(parseInt(Get(r5, K_category_id))))
        r7 == Put(r6, K_category_name, CategoryName(cats, country, r6[K_category_id]))
        td == Get(r7, K_trending_date)
    IN  IF td # Undefined /\ td # <<>>
        THEN Put(r7, K_trending_date_parsed, parseTrendingDate(td))
        ELSE r7

\* text.trim().split('\n') on a text given as its lines
TextLines(text) ==
    LET keep == {i \in 1..Len(text) : Trim(text[i]) # <<>>}
    IN  IF keep = {} THEN << <<>> >>
        ELSE LET lo == CHOOSE i \in keep : \A j \in keep : i <= j
                 hi == CHOOSE i \in keep : \A j \in keep : j <= i
             IN  [k \in 1..(hi - lo + 1) |->
                    LET l == text[lo + k - 1]
                        a == IF k = 1 THEN TrimStart(l) ELSE l
                    IN  IF k = hi - lo + 1 THEN TrimEnd(a) ELSE a]

\* the row cap of parseCSV: 1000 data rows + header
MaxRowsCap == 1001

\* parseCSV's cap as a mutant: every line is read
AllRows(n) == n

\* const maxRows = Math.min(lines.length, 1001)
MaxRows(n) == Min(n, MaxRowsCap)

parseCSV(text, country, cats) ==
    LET lines   == TextLines(text)
        headers == Split(lines[1], ",")
        maxRows == MaxRows(Len(lines))
        values  == [k \in 1..(maxRows - 1) |-> parseCSVLine(lines[k + 1])]
        kept    == SelectSeq(values, LAMBDA v : Len(v) >= Len(headers))
    IN  [k \in 1..Len(kept) |-> MakeRow(headers, kept[k], country, cats)]

-----------------------------------------------------------------------------
(* Inputs of the parser: the bounded sets the calls are drawn from *)

\* how many of DataLoader.countries the model loads
NumCountries == 2

\* how many data lines a generated small text has at most
MaxLines == 2

\* how long a generated line of parseCSVLine is at most
MaxLineLen == 4

\* this.countries (line 4), in its order
CountryList == <<"CA", "DE", "FR", "GB", "IN", "JP", "KR", "MX", "RU", "US">>

Countries == {CountryList[i] : i \in (Len(CountryList) - NumCountries + 1)..Len(CountryList)}

RECURSIVE JoinWith(_, _)
JoinWith(fields, sep) ==
    IF Len(fields) = 0 THEN <<>>
    ELSE IF Len(fields) = 1 THEN fields[1]
    ELSE fields[1] \o <<sep>> \o JoinWith(Tail(fields), sep)

S_Music == <<"M", "u", "s", "i", "c">>

S_Film == <<"F", "i", "l", "m">>

S_News == <<"N", "e", "w", "s">>

\* category payloads: the parsed JSON of data/<country>_category_id.json
CategoryPayloads ==
    { [hasItems |-> TRUE,
       items |-> << [id |-> 1, title |-> S_Music], [id |-> 3, title |-> <<>>] >>],
      [hasItems |-> TRUE,
       items |-> << [id |-> 0, title |-> S_News], [id |-> 1, title |-> S_Film],
                    [id |-> 1, title |-> S_Music] >>],
      [hasItems |-> FALSE, items |-> <<>>] }

\* states this.categories can be in once loadCategories has settled: the
\* countries whose fetch succeeded have the map of a payload, the others none
CategoryStates ==
    { [c \in S |-> processCategoryData(p)] : S \in SUBSET Countries, p \in CategoryPayloads }

ParseHeaders ==
    { JoinWith(<<K_views, K_likes, K_dislikes, K_comment_count, K_category_id,
                 K_trending_date, K_title>>, ","),
      JoinWith(<<<<" ">> \o K_title, K_views \o <<" ">>>>, ",") }

ParseLinePool ==
    { <<"1", "0", "0", ",", "1", "0", ",", "1", ",", "2", ",", "1", ",", "1", "7", ".", "1", "4", ".", "1", "1", ",", "a", "b", "c">>,
      <<"-", "5", ",", "0", ",", "-", "1", ",", "x", ",", "2", ",", "b", "a", "d", ",", "\"", "a", ",", "b", "\"">>,
      <<"3", "0", "0", ",", "7", ",", "0", ",", "-", "2", ",", "x", "x", ",", "a", "a", ".", "b", "b", ".", "c", "c", ",", " ", "t", " ">>,
      <<"7", ",", ",", "4", ",", "5", ",", "3", ",", "1", "7", ".", "3", "1", ".", "0", "2">> }

RECURSIVE SeqsUpTo(_, _)
SeqsUpTo(S, n) ==
    IF n = 0 THEN {<<>>}
    ELSE LET shorter == SeqsUpTo(S, n - 1)
         IN  shorter \cup {Append(s, x) : s \in shorter, x \in S}

SmallTexts == {<<h>> \o body : h \in ParseHeaders, body \in SeqsUpTo(ParseLinePool, MaxLines)}

\* texts around the row cap: a header and n data lines, every third one too short
BigText(n, mixed) ==
    [i \in 1..(n + 1) |->
        IF i = 1 THEN JoinWith(<<K_views, K_likes>>, ",")
        ELSE IF mixed /\ i % 3 = 0 THEN <<"7">>
        ELSE <<"7", ",", "1">>]

BigTexts == {BigText(n, m) : n \in (MaxRowsCap - 2)..MaxRowsCap, m \in BOOLEAN}

\* texts with blank lines and spaces around them, for trim()
PaddedTexts ==
    { << <<>>, <<" ", "v", "i", "e", "w", "s", ",", "l", "i", "k", "e", "s">>, <<"1", ",", "2">>, <<" ">> >>,
      << <<" ">>, <<>> >>,
      << <<"v", "i", "e", "w", "s">>, <<>>, <<"5">>, <<" ", "6", " ">> >> }

\* the texts parsed against the category state: before any category is loaded
\* all of them, afterwards the ones whose rows can differ by category
ParseTexts(cats) ==
    IF cats = <<>> THEN SmallTexts \cup PaddedTexts \cup BigTexts
    ELSE SmallTexts \cup PaddedTexts

LineAlphabet == {",", "\"", "a"}

ParseLines == SeqsUpTo(LineAlphabet, MaxLineLen) \cup ParseLinePool

DateYears == {<<"1", "7">>, <<"1", "6">>, <<" ", "7">>}

DateDays == {<<"1", "4">>, <<"0", "1">>, <<"2", "9">>, <<"3", "1">>, <<"0", "0">>}

DateMonths == {<<"1", "1">>, <<"0", "2">>, <<"1", "2">>, <<"1", "3">>, <<"0", "0">>, <<"1", "x">>}

WellFormedDates == {JoinWith(<<y, d, m>>, ".") : y \in DateYears, d \in DateDays, m \in DateMonths}

MalformedDates ==
    { <<"b", "a", "d">>, <<"a", "a", ".", "b", "b", ".", "c", "c">>, <<"1", "7", ".", "a", "a", ".", "1", "1">>, <<"1", "7", ".", "1", "4">>, <<"1", "7", ".", "1", "4", ".", "1", "1", ".", "3">>, <<".", ".">>, <<"1", "7", ".", "1", "4", ".">>, <<>> }

ParseDates == WellFormedDates \cup MalformedDates

-----------------------------------------------------------------------------
(* The parser's calls *)

\* the position of one country's async callback: idle (not called), fetching
\* (awaiting fetch), reading (awaiting response.text() / response.json()),
\* done (returned success), failed (returned from its catch); body is the
\* text it parsed
Idle == [at |-> "idle", body |-> <<>>]

NoFetch == [c \in Countries |-> Idle]

InitParse ==
    /\ categories = <<>>
    /\ videoData = <<>>
    /\ videoKeys = <<>>
    /\ isLoaded = FALSE
    /\ catFetch = NoFetch
    /\ vidFetch = NoFetch
    /\ results = <<>>
    /\ pc = "new"
    /\ op = "none"
    /\ arg = <<>>
    /\ ret = <<>>
    /\ again = NotCalled
    /\ Constructed

Loader == <<categories, videoData, videoKeys, isLoaded, catFetch, vidFetch, results, pc>>

\* loadCategories as one step: every category fetch has settled
SettleCategories ==
    /\ pc = "new"
    /\ op = "none"
    /\ categories' \in CategoryStates
    /\ pc' = "categories"
    /\ UNCHANGED <<videoData, videoKeys, isLoaded, catFetch, vidFetch, results, op, arg, ret, again, App>>

CallParseCSV ==
    /\ op = "none"
    /\ \E text \in ParseTexts(categories), country \in Countries :
        /\ op' = "parseCSV"
        /\ arg' = [text |-> text, country |-> country]
        /\ ret' = parseCSV(text, country, categories)
        /\ UNCHANGED <<Loader, again, App>>

CallParseCSVLine ==
    /\ op = "none"
    /\ pc = "new"
    /\ \E line \in ParseLines :
        /\ op' = "parseCSVLine"
        /\ arg' = line
        /\ ret' = parseCSVLine(line)
        /\ UNCHANGED <<Loader, again, App>>

CallParseTrendingDate ==
    /\ op = "none"
    /\ pc = "new"
    /\ \E dateStr \in ParseDates :
        /\ op' = "parseTrendingDate"
        /\ arg' = dateStr
        /\ ret' = parseTrendingDate(dateStr)
        /\ UNCHANGED <<Loader, again, App>>

NextParse == SettleCategories \/ CallParseCSV \/ CallParseCSVLine \/ CallParseTrendingDate

SpecParse == InitParse /\ [][NextParse]_vars

-----------------------------------------------------------------------------
(* Inputs of the loader and of the aggregation methods *)

\* the header of data/<country>videos.csv, and a file that lacks most columns
FullColumns ==
    <<K_video_id, K_trending_date, K_title, K_channel_title, K_category_id,
      K_publish_time, K_tags, K_views, K_likes, K_dislikes, K_comment_count>>

FewColumns == <<K_trending_date, K_views, K_likes>>

ColumnSets == {FullColumns, FewColumns}

\* sample videos, by column
Video(id, date, title, channel, category, published, tags, views, likes, dislikes, comments) ==
    [k \in {K_video_id, K_trending_date, K_title, K_channel_title, K_category_id,
            K_publish_time, K_tags, K_views, K_likes, K_dislikes, K_comment_count} |->
        CASE k = K_video_id -> id
          [] k = K_trending_date -> date
          [] k = K_title -> title
          [] k = K_channel_title -> channel
          [] k = K_category_id -> category
          [] k = K_publish_time -> published
          [] k = K_tags -> tags
          [] k = K_views -> views
          [] k = K_likes -> likes
          [] k = K_dislikes -> dislikes
          [] OTHER -> comments]

V1 ==
    Video(<<"v", "1">>, <<"1", "7", ".", "1", "4", ".", "1", "1">>, <<"t", "1">>, <<"c", "h">>, <<"1">>, <<"2", "0", "1", "7", "-", "1", "1", "-", "1", "3">>, <<"g", "a", "m", "i", "n", "g", "|", "m", "u", "s", "i", "c">>,
        <<"1", "0", "0">>, <<"1", "0">>, <<"1">>, <<"2">>)

V2 ==
    Video(<<"v", "2">>, <<"1", "7", ".", "1", "5", ".", "1", "1">>, <<"t", "2">>, <<"c", "h">>, <<"2">>, <<"2", "0", "1", "7", "-", "1", "1", "-", "1", "4">>, <<"n", "o", "n", "e">>,
        <<"3", "0", "0">>, <<"5">>, <<"0">>, <<"0">>)

V3 ==
    Video(<<"v", "3">>, <<"a", "a", ".", "b", "b", ".", "c", "c">>, <<>>, <<"x", "y">>, <<"x", "x">>, <<>>, <<"m", "u", "s", "i", "c">>,
        <<"0">>, <<"7">>, <<"x">>, <<"3">>)

V4 ==
    Video(<<"v", "4">>, <<"b", "a", "d">>, <<"t", "4">>, <<>>, <<"1">>, <<"2", "0", "1", "7", "-", "1", "1", "-", "1", "3">>, <<>>,
        <<"2", "0", "0">>, <<"0">>, <<"2">>, <<"1">>)

V5 ==
    Video(<<"v", "5">>, <<"1", "7", ".", "1", "4", ".", "1", "1">>, <<"t", "5">>, <<"x", "y">>, <<"3">>, <<"2", "0", "1", "7", "-", "1", "1", "-", "1", "3">>, <<"m", "u", "s", "i", "c">>,
        <<"0">>, <<"7">>, <<"0">>, <<"4">>)

V6 ==
    Video(<<"v", "6">>, <<"1", "8", ".", "2", "5", ".", "0", "3">>, <<"t", "6">>, <<"x", "y">>, <<"1">>, <<"2", "0", "1", "8", "-", "0", "3", "-", "2", "4">>, <<"m", "u", "s", "i", "c">>,
        <<"9", "0">>, <<"3">>, <<"0">>, <<"1">>)

V7 ==
    Video(<<"v", "7">>, <<"1", "8", ".", "2", "6", ".", "0", "3">>, <<"t", "7">>, <<"z", "z">>, <<"1">>, <<"2", "0", "1", "8", "-", "0", "3", "-", "2", "5">>, <<"m", "u", "s", "i", "c">>,
        <<"7", "0">>, <<"9">>, <<"0">>, <<"1">>)

V8 ==
    Video(<<"v", "8">>, <<"1", "8", ".", "2", "6", ".", "0", "3">>, <<"t", "8">>, <<"n", "n">>, <<"2">>, <<"2", "0", "1", "8", "-", "0", "3", "-", "2", "5">>, <<"n", "o", "n", "e">>,
        <<"0">>, <<"0">>, <<"0">>, <<"0">>)

VideoPool == {V1, V2, V3, V4, V5}

\* the CSV line of a video under a header
LineOf(columns, video) == JoinWith([i \in 1..Len(columns) |-> video[columns[i]]], ",")

\* the CSV text of a file: the header line and one line per video
TextOf(columns, videos) ==
    <<JoinWith(columns, ",")>> \o [i \in 1..Len(videos) |-> LineOf(columns, videos[i])]

\* the files the loader's fetches answer with
LoadTexts == {TextOf(FullColumns, <<V1, V2>>), TextOf(FewColumns, <<V3>>)}

-----------------------------------------------------------------------------
(* DataLoader.init: loadCategories, then loadVideoData *)

Settled(f) == f.at \in {"done", "failed"}

\* Promise.all as a mutant: resolved as soon as one callback has settled
AnySettled(fetches) == \E c \in DOMAIN fetches : Settled(fetches[c])

\* await Promise.all(promises): every callback has returned
AllSettled(fetches) == \A c \in DOMAIN fetches : Settled(fetches[c])

Init ==
    /\ categories = <<>>
    /\ videoData = <<>>
    /\ videoKeys = <<>>
    /\ isLoaded = FALSE
    /\ catFetch = NoFetch
    /\ vidFetch = NoFetch
    /\ results = <<>>
    /\ pc = "new"
    /\ op = "none"
    /\ arg = <<>>
    /\ ret = <<>>
    /\ again = NotCalled
    /\ Constructed

Call == <<op, arg, ret>>

\* init() calls loadCategories(), whose map() starts every fetch at once
StartInit ==
    /\ pc = "new"
    /\ pc' = "categories"
    /\ catFetch' = [c \in Countries |-> [at |-> "fetching", body |-> <<>>]]
    /\ UNCHANGED <<categories, videoData, videoKeys, isLoaded, vidFetch, results, Call, again, App>>

\* fetch(`data/${country}_category_id.json`) resolves
CategoryResponse(c) ==
    /\ catFetch[c].at = "fetching"
    /\ catFetch' = [catFetch EXCEPT ![c].at = "reading"]
    /\ UNCHANGED <<categories, videoData, videoKeys, isLoaded, vidFetch, results, pc, Call, again, App>>

\* the fetch rejects, or response.json() rejects, or processCategoryData throws
CategoryError(c) ==
    /\ catFetch[c].at \in {"fetching", "reading"}
    /\ catFetch' = [catFetch EXCEPT ![c].at = "failed"]
    /\ UNCHANGED <<categories, videoData, videoKeys, isLoaded, vidFetch, results, pc, Call, again, App>>

\* response.json() resolves: this.categories[country] = this.processCategoryData(data)
CategoryJson(c) ==
    /\ catFetch[c].at = "reading"
    /\ \E data \in CategoryPayloads :
          categories' = Put(categories, c, processCategoryData(data))
    /\ catFetch' = [catFetch EXCEPT ![c].at = "done"]
    /\ UNCHANGED <<videoData, videoKeys, isLoaded, vidFetch, results, pc, Call, again, App>>

\* init() as a mutant: loadVideoData is called without awaiting loadCategories
StartVideosUnawaited ==
    /\ pc = "categories"
    /\ pc' = "videos"
    /\ vidFetch' = [c \in Countries |-> [at |-> "fetching", body |-> <<>>]]
    /\ UNCHANGED <<categories, videoData, videoKeys, isLoaded, catFetch, results, Call, again, App>>

\* await Promise.all(categoryPromises) resumes; init() goes on to call
\* loadVideoData(countriesToLoad), whose map() starts every fetch at once
StartVideos ==
    /\ pc = "categories"
    /\ AllSettled(catFetch)
    /\ pc' = "videos"
    /\ vidFetch' = [c \in Countries |-> [at |-> "fetching", body |-> <<>>]]
    /\ UNCHANGED <<categories, videoData, videoKeys, isLoaded, catFetch, results, Call, again, App>>

\* fetch(`data/${country}videos.csv`) resolves
VideoResponse(c) ==
    /\ vidFetch[c].at = "fetching"
    /\ vidFetch' = [vidFetch EXCEPT ![c].at = "reading"]
    /\ UNCHANGED <<categories, videoData, videoKeys, isLoaded, catFetch, results, pc, Call, again, App>>

\* the fetch rejects, or response.text() rejects
VideoError(c) ==
    /\ vidFetch[c].at \in {"fetching", "reading"}
    /\ vidFetch' = [vidFetch EXCEPT ![c].at = "failed"]
    /\ UNCHANGED <<categories, videoData, videoKeys, isLoaded, catFetch, results, pc, Call, again, App>>

\* response.text() resolves: this.videoData[country] = this.parseCSV(text, country)
VideoText(c) ==
    /\ vidFetch[c].at = "reading"
    /\ \E text \in LoadTexts :
          /\ videoData' = Put(videoData, c, parseCSV(text, c, categories))
          /\ videoKeys' = Append(videoKeys, c)
          /\ vidFetch' = [vidFetch EXCEPT ![c] = [at |-> "done", body |-> text]]
    /\ UNCHANGED <<categories, isLoaded, catFetch, results, pc, Call, again, App>>

\* what one callback of loadVideoData returned
VideoResult(c) ==
    IF vidFetch[c].at = "done"
    THEN [country |-> c, success |-> TRUE, count |-> Len(videoData[c])]
    ELSE [country |-> c, success |-> FALSE, count |-> 0]

\* const results = await Promise.all(videoPromises); this.isLoaded = true
FinishVideos ==
    /\ pc = "videos"
    /\ AllSettled(vidFetch)
    /\ results' = [c \in Countries |-> VideoResult(c)]
    /\ isLoaded' = TRUE
    /\ pc' = "done"
    /\ UNCHANGED <<categories, videoData, videoKeys, catFetch, vidFetch, Call, again, App>>

Next ==
    \/ StartInit
    \/ \E c \in Countries : CategoryResponse(c)
    \/ \E c \in Countries : CategoryError(c)
    \/ \E c \in Countries : CategoryJson(c)
    \/ StartVideos
    \/ \E c \in Countries : VideoResponse(c)
    \/ \E c \in Countries : VideoError(c)
    \/ \E c \in Countries : VideoText(c)
    \/ FinishVideos

Spec == Init /\ [][Next]_vars

-----------------------------------------------------------------------------
(* DataLoader: the aggregation methods.  A call returns [threw, value]:    *)
(* threw is TRUE when the method threw, and value is then the error's name *)

Returned(v) == [threw |-> FALSE, value |-> v]

Threw(e) == [threw |-> TRUE, value |-> e]

\* Object.values(this.videoData).flat(): the rows of every country, the
\* countries in the insertion order of their keys
RECURSIVE Flat(_, _)
Flat(data, keys) ==
    IF keys = <<>> THEN <<>> ELSE data[Head(keys)] \o Flat(data, Tail(keys))

\* the rows a country argument selects: every row for 'all', else
\* this.videoData[country] || []
VideosOf(data, keys, country) ==
    IF country = "all" THEN Flat(data, keys)
    ELSE IF country \in DOMAIN data THEN data[country]
    ELSE <<>>

Abs(n) == IF n < 0 THEN -n ELSE n

RECURSIVE Gcd(_, _)
Gcd(a, b) == IF b = 0 THEN a ELSE Gcd(b, a % b)

\* a / b on integers: NaN for 0 / 0, an infinity for x / 0, else the fraction
\* in lowest terms with a positive denominator
Quotient(a, b) ==
    IF b = 0
    THEN IF a = 0 THEN [kind |-> "nan", num |-> 0, den |-> 0]
         ELSE [kind |-> "infinity", num |-> IF a > 0 THEN 1 ELSE -1, den |-> 0]
    ELSE LET g == Gcd(Abs(a), Abs(b))
             s == IF b < 0 THEN -1 ELSE 1
         IN  [kind |-> "number", num |-> s * (a \div g), den |-> Abs(b) \div g]

\* rows.reduce((sum, video) => sum + video[k], start) from row i on
RECURSIVE Reduce(_, _, _, _)
Reduce(rows, k, i, sum) ==
    IF i > Len(rows) THEN sum ELSE Reduce(rows, k, i + 1, sum + rows[i][k])

\* the reduce of getViewsByCountry as a mutant: the sum starts at 1
SumViewsFromOne(rows) == Reduce(rows, K_views, 1, 1)

\* rows.reduce((sum, video) => sum + video.views, 0)
SumViews(rows) == Reduce(rows, K_views, 1, 0)

getViewsByCountry(data) ==
    [country \in DOMAIN data |->
        LET totalViews == SumViews(data[country])
        IN  [totalViews |-> totalViews,
             avgViews   |-> Quotient(totalViews, Len(data[country])),
             videoCount |-> Len(data[country])]]

\* categoryCount[category] = (categoryCount[category] || 0) + 1 over the rows
CategoryCount(videos) ==
    LET names == {videos[i][K_category_name] : i \in 1..Len(videos)}
    IN  [n \in names |-> Cardinality({i \in 1..Len(videos) : videos[i][K_category_name] = n})]

getCategoryDistribution(data, keys) == CategoryCount(Flat(data, keys))

getCategoryDistributionByCountry(data, keys, country) ==
    IF country = "all" THEN getCategoryDistribution(data, keys)
    ELSE CategoryCount(VideosOf(data, keys, country))

\* the three filters of getViewsVsLikes as a mutant: the max bounds are ignored
PassesMinOnly(video, filters) ==
    /\ video[K_views] > 0 /\ video[K_likes] > 0
    /\ video[K_views] >= (IF "minViews" \in DOMAIN filters THEN filters["minViews"] ELSE 0)
    /\ video[K_likes] >= (IF "minLikes" \in DOMAIN filters THEN filters["minLikes"] ELSE 0)

\* the three filters of getViewsVsLikes; a bound that is not a finite number
\* is 0 (min) or Infinity (max)
PassesFilters(video, filters) ==
    LET minViews == IF "minViews" \in DOMAIN filters THEN filters["minViews"] ELSE 0
        minLikes == IF "minLikes" \in DOMAIN filters THEN filters["minLikes"] ELSE 0
    IN  /\ video[K_views] > 0 /\ video[K_likes] > 0
        /\ video[K_views] >= minViews
        /\ ("maxViews" \in DOMAIN filters => video[K_views] <= filters["maxViews"])
        /\ video[K_likes] >= minLikes
        /\ ("maxLikes" \in DOMAIN filters => video[K_likes] <= filters["maxLikes"])

\* the picks as a mutant: an element can be picked more than once
ArrangementsWithRepeats(n, m) == [1..m -> 1..n]

\* the ways .sort(() => 0.5 - Math.random()).slice(0, m) can pick and order
\* m of n elements: the sort leaves some permutation, slice keeps its first m
Arrangements(n, m) ==
    {p \in [1..m -> 1..n] : \A i, j \in 1..m : p[i] = p[j] => i = j}

ScatterItem(video) ==
    [views    |-> video[K_views],
     likes    |-> video[K_likes],
     title    |-> Get(video, K_title),
     country  |-> video[K_country],
     category |-> video[K_category_name]]

\* every value getViewsVsLikes can return for a sample size 0, 1, 2, ...
getViewsVsLikes(data, keys, sampleSize, country, filters) ==
    LET videos  == VideosOf(data, keys, country)
        passing == SelectSeq(videos, LAMBDA v : PassesFilters(v, filters))
        m       == Min(sampleSize, Len(passing))
    IN  {[i \in 1..m |-> ScatterItem(passing[p[i]])] : p \in Arrangements(Len(passing), m)}

\* if (video.trending_date_parsed)
HasDate(video) ==
    /\ K_trending_date_parsed \in DOMAIN video
    /\ Truthy(video[K_trending_date_parsed])

\* the elements of a finite set of integers in ascending order
SortedDays(S) ==
    [k \in 1..Cardinality(S) |-> CHOOSE t \in S : Cardinality({u \in S : u < t}) = k - 1]

\* the time zones the program is run in: offset is the hours east of UTC in
\* winter, and dst the first and the last day of 2018 that begin with the
\* clock one hour ahead (none where the clock is not changed)
UTC == [offset |-> 0, dst |-> <<>>]

EuropeLondon ==
    [offset |-> 0, dst |-> <<DaysFromCivil(2018, 3, 26), DaysFromCivil(2018, 10, 28)>>]

AmericaNewYork ==
    [offset |-> -5, dst |-> <<DaysFromCivil(2018, 3, 12), DaysFromCivil(2018, 11, 4)>>]

TimeZones == {UTC, EuropeLondon, AmericaNewYork}

\* date.toISOString().split('T')[0] of a Date that is a local midnight: the
\* day of that moment in UTC, as a day number
dateKey(date, zone) ==
    LET ahead  == zone.dst # <<>> /\ date.t >= zone.dst[1] /\ date.t <= zone.dst[2]
        offset == zone.offset + (IF ahead THEN 1 ELSE 0)
    IN  (24 * date.t - offset) \div 24

\* the loop and the final sort of getTimelineData / getTimelineDataByCountry,
\* run in a time zone.  An entry holds the Date of the first row of its
\* dateKey; toISOString throws a RangeError on an Invalid Date.
Timeline(videos, zone) ==
    LET dated == SelectSeq(videos, HasDate)
        entry(k) ==
            LET on == SelectSeq(dated, LAMBDA v : dateKey(v[K_trending_date_parsed], zone) = k)
            IN  [date       |-> on[1][K_trending_date_parsed],
                 count      |-> Len(on),
                 totalViews |-> SumViews(on)]
        sorted(entries) ==
            LET days == SortedDays({e.date.t : e \in entries})
            IN  [k \in 1..Len(days) |-> CHOOSE e \in entries : e.date.t = days[k]]
    IN  IF \E i \in 1..Len(dated) : dated[i][K_trending_date_parsed].kind = "invalid"
        THEN Threw("RangeError")
        ELSE Returned(sorted({entry(k) :
                k \in {dateKey(dated[i][K_trending_date_parsed], zone) : i \in 1..Len(dated)}}))

getTimelineData(data, keys, zone) == Timeline(Flat(data, keys), zone)

getTimelineDataByCountry(data, keys, country, zone) ==
    IF country = "all" THEN getTimelineData(data, keys, zone)
    ELSE Timeline(VideosOf(data, keys, country), zone)

\* the sort as a mutant: ascending
SortAsc(seq, keys) ==
    LET before(i) == {j \in 1..Len(seq) : keys[j] < keys[i] \/ (keys[j] = keys[i] /\ j < i)}
    IN  [p \in 1..Len(seq) |-> seq[CHOOSE i \in 1..Len(seq) : Cardinality(before(i)) = p - 1]]

\* Array.prototype.sort with (a, b) => key(b) - key(a) on integer keys: stable,
\* descending; keys[i] is the key of seq[i]
SortDesc(seq, keys) ==
    LET before(i) == {j \in 1..Len(seq) : keys[j] > keys[i] \/ (keys[j] = keys[i] /\ j < i)}
    IN  [p \in 1..Len(seq) |-> seq[CHOOSE i \in 1..Len(seq) : Cardinality(before(i)) = p - 1]]

\* s.length > n ? s.substring(0, n) + '...' : s
Ellipsis(s, n) == IF Len(s) > n THEN SubSeq(s, 1, n) \o <<".", ".", ".">> ELSE s

\* slice(0, limit) for a limit 0, 1, 2, ...
Slice(seq, limit) == SubSeq(seq, 1, Min(limit, Len(seq)))

\* video.title.length throws a TypeError when the row has no title property
getTopVideosByViews(data, keys, limit) ==
    LET allVideos == Flat(data, keys)
        sorted    == SortDesc(allVideos, [i \in 1..Len(allVideos) |-> allVideos[i][K_views]])
        top       == Slice(sorted, limit)
    IN  IF \E i \in 1..Len(top) : K_title \notin DOMAIN top[i]
        THEN Threw("TypeError")
        ELSE Returned([i \in 1..Len(top) |->
                [title    |-> Ellipsis(top[i][K_title], 30),
                 views    |-> top[i][K_views],
                 likes    |-> top[i][K_likes],
                 comments |-> top[i][K_comment_count],
                 channel  |-> Get(top[i], K_channel_title),
                 country  |-> top[i][K_country],
                 category |-> top[i][K_category_name]]])

\* the property key a value is used as: String(value)
KeyOf(value) ==
    IF value = Undefined THEN <<"u", "n", "d", "e", "f", "i", "n", "e", "d">> ELSE value

\* a < b for two canonical numerals (digit strings without a leading zero)
NumeralLess(a, b) ==
    \/ Len(a) < Len(b)
    \/ /\ Len(a) = Len(b)
       /\ \E i \in 1..Len(a) :
             /\ DigitVal(a[i]) < DigitVal(b[i])
             /\ \A j \in 1..(i - 1) : a[j] = b[j]

\* 2^32 - 1 as a numeral
MaxIndexKey == <<"4", "2", "9", "4", "9", "6", "7", "2", "9", "5">>

\* an array-index key: a canonical numeral below 2^32 - 1
IsIndexKey(k) ==
    /\ Len(k) > 0
    /\ \A i \in 1..Len(k) : IsDigit(k[i])
    /\ (k[1] # "0" \/ Len(k) = 1)
    /\ NumeralLess(k, MaxIndexKey)

\* Object.values(channelData): the keys that are array indexes first, in
\* ascending order, then the others in insertion order
ChannelKeys(videos) ==
    LET key(i)   == KeyOf(Get(videos[i], K_channel_title))
        all      == {key(i) : i \in 1..Len(videos)}
        first(k) == CHOOSE i \in 1..Len(videos) : key(i) = k /\ \A j \in 1..(i - 1) : key(j) # k
        before(a, b) ==
            IF IsIndexKey(a) /\ IsIndexKey(b) THEN NumeralLess(a, b)
            ELSE IF IsIndexKey(a) THEN TRUE
            ELSE IF IsIndexKey(b) THEN FALSE
            ELSE first(a) < first(b)
    IN  [p \in 1..Cardinality(all) |->
            CHOOSE k \in all : Cardinality({a \in all : a # k /\ before(a, k)}) = p - 1]

\* the channelData entry of one key, after the forEach
ChannelEntry(videos, k) ==
    LET of == SelectSeq(videos, LAMBDA v : KeyOf(Get(v, K_channel_title)) = k)
    IN  [name          |-> Get(of[1], K_channel_title),
         totalViews    |-> SumViews(of),
         totalLikes    |-> Reduce(of, K_likes, 1, 0),
         totalComments |-> Reduce(of, K_comment_count, 1, 0),
         videoCount    |-> Len(of)]

\* b - a is a number (not NaN) for two engagement scores
Comparable(a, b) ==
    /\ a.kind # "nan" /\ b.kind # "nan"
    /\ ~(a.kind = "infinity" /\ b.kind = "infinity" /\ a.num = b.num)

\* a < b for two comparable scores
ScoreLess(a, b) ==
    IF a.kind = "number" /\ b.kind = "number" THEN a.num * b.den < b.num * a.den
    ELSE IF a.kind = "infinity" /\ b.kind = "infinity" THEN a.num < b.num
    ELSE IF a.kind = "infinity" THEN a.num < 0
    ELSE b.num > 0

\* the orders .sort((a, b) => b.engagementScore - a.engagementScore) can leave:
\* the stable descending order when every difference is a number, and an
\* implementation-defined permutation when some difference is NaN
SortedByScore(seq) ==
    LET n == Len(seq)
        score(i) == seq[i].engagementScore
    IN  IF \A i, j \in 1..n : i # j => Comparable(score(i), score(j))
        THEN LET before(i) == {j \in 1..n : \/ ScoreLess(score(i), score(j))
                                             \/ (~ScoreLess(score(j), score(i)) /\ j < i)}
             IN  {[p \in 1..n |-> seq[CHOOSE i \in 1..n : Cardinality(before(i)) = p - 1]]}
        ELSE {[p \in 1..n |-> seq[q[p]]] : q \in Arrangements(n, n)}

\* every value getTopChannelsByEngagement can return; channel.name.length
\* throws a TypeError for the entry of rows that have no channel_title property
getTopChannelsByEngagement(data, keys, limit) ==
    LET videos   == Flat(data, keys)
        names    == ChannelKeys(videos)
        channels == [i \in 1..Len(names) |-> ChannelEntry(videos, names[i])]
    IN  IF \E i \in 1..Len(channels) : channels[i].name = Undefined
        THEN {Threw("TypeError")}
        ELSE LET mapped == [i \in 1..Len(channels) |->
                    [name            |-> Ellipsis(channels[i].name, 20),
                     engagementScore |-> Quotient(100 * channels[i].totalLikes, channels[i].totalViews),
                     totalViews      |-> channels[i].totalViews,
                     totalLikes      |-> channels[i].totalLikes,
                     videoCount      |-> channels[i].videoCount]]
             IN  {Returned(Slice(sorted, limit)) : sorted \in SortedByScore(mapped)}

-----------------------------------------------------------------------------
(* The aggregation methods, called on what the loader has stored.  The     *)
(* loader runs in big steps here: loadCategories as one, and one per       *)
(* country for the callback of loadVideoData that stores its rows.  The    *)
(* aggregation methods read this.videoData only, at whatever point of the  *)
(* loading they are called.                                                 *)

\* the category files are all alike, or none of them loads
AggCategoryStates ==
    {s \in CategoryStates :
        \/ s = <<>>
        \/ /\ DOMAIN s = Countries
           /\ \A c \in Countries : 1 \in DOMAIN s[c] /\ 3 \in DOMAIN s[c]}

\* the files of the aggregation runs: the example of two rows, a file that
\* lacks the title and channel columns and holds an unparseable date, a file
\* of rows with defaulted fields, a file with no data line, and a file of the
\* two days around the change to summer time, the last row with no view and
\* no like
AggTexts ==
    { TextOf(FullColumns, <<V1, V2>>),
      TextOf(FewColumns, <<V3>>),
      TextOf(FullColumns, <<V4, V5>>),
      TextOf(FullColumns, <<>>),
      TextOf(FullColumns, <<V6, V7, V8>>) }

\* a country code the model never loads
NeverLoaded == CountryList[1]

CountryArgs == Countries \cup {"all", NeverLoaded}

SampleSizes == {0, 1, 2}

ScatterFilters ==
    { <<>>,
      [minViews |-> 150, maxLikes |-> 4],
      [maxViews |-> 250, minLikes |-> 6] }

Limits == {1, 10}

AggOps ==
    {"getViewsByCountry", "getCategoryDistributionByCountry", "getViewsVsLikes",
     "getTimelineData", "getTimelineDataByCountry", "getTopVideosByViews",
     "getTopChannelsByEngagement"}

InitAgg ==
    /\ categories = <<>>
    /\ videoData = <<>>
    /\ videoKeys = <<>>
    /\ isLoaded = FALSE
    /\ catFetch = NoFetch
    /\ vidFetch = NoFetch
    /\ results = <<>>
    /\ pc = "new"
    /\ op = "none"
    /\ arg = <<>>
    /\ ret = <<>>
    /\ again = NotCalled
    /\ Constructed

\* init() up to the start of loadVideoData: the category callbacks have all
\* settled and every video fetch has been started
LoadCategories ==
    /\ pc = "new"
    /\ op = "none"
    /\ categories' \in AggCategoryStates
    /\ catFetch' = [c \in Countries |->
                      [at |-> IF c \in DOMAIN categories' THEN "done" ELSE "failed", body |-> <<>>]]
    /\ vidFetch' = [c \in Countries |-> [at |-> "fetching", body |-> <<>>]]
    /\ pc' = "videos"
    /\ UNCHANGED <<videoData, videoKeys, isLoaded, results, Call, again, App>>

\* one callback of loadVideoData runs to its return: the file arrives and
\* its rows are stored
LoadVideos(c) ==
    /\ pc = "videos"
    /\ op = "none"
    /\ vidFetch[c].at = "fetching"
    /\ \E text \in AggTexts :
          /\ videoData' = Put(videoData, c, parseCSV(text, c, categories))
          /\ videoKeys' = Append(videoKeys, c)
          /\ vidFetch' = [vidFetch EXCEPT ![c] = [at |-> "done", body |-> text]]
    /\ UNCHANGED <<categories, isLoaded, catFetch, results, pc, Call, again, App>>

CallGetViewsByCountry ==
    /\ op = "none"
    /\ op' = "getViewsByCountry"
    /\ arg' = <<>>
    /\ ret' = Returned(getViewsByCountry(videoData))
    /\ UNCHANGED <<Loader, again, App>>

CallGetCategoryDistributionByCountry ==
    /\ op = "none"
    /\ \E country \in CountryArgs :
        /\ op' = "getCategoryDistributionByCountry"
        /\ arg' = [country |-> country]
        /\ ret' = Returned(getCategoryDistributionByCountry(videoData, videoKeys, country))
        /\ UNCHANGED <<Loader, again, App>>

CallGetViewsVsLikes ==
    /\ op = "none"
    /\ \E sampleSize \in SampleSizes, country \in CountryArgs, filters \in ScatterFilters :
        /\ op' = "getViewsVsLikes"
        /\ arg' = [sampleSize |-> sampleSize, country |-> country, filters |-> filters]
        /\ \E sampled \in getViewsVsLikes(videoData, videoKeys, sampleSize, country, filters) :
              ret' = Returned(sampled)
        /\ UNCHANGED <<Loader, again, App>>

CallGetTimelineData ==
    /\ op = "none"
    /\ \E zone \in TimeZones :
        /\ op' = "getTimelineData"
        /\ arg' = [zone |-> zone]
        /\ ret' = getTimelineData(videoData, videoKeys, zone)
        /\ UNCHANGED <<Loader, again, App>>

CallGetTimelineDataByCountry ==
    /\ op = "none"
    /\ \E country \in CountryArgs, zone \in TimeZones :
        /\ op' = "getTimelineDataByCountry"
        /\ arg' = [country |-> country, zone |-> zone]
        /\ ret' = getTimelineDataByCountry(videoData, videoKeys, country, zone)
        /\ UNCHANGED <<Loader, again, App>>

CallGetTopVideosByViews ==
    /\ op = "none"
    /\ \E limit \in Limits :
        /\ op' = "getTopVideosByViews"
        /\ arg' = [limit |-> limit]
        /\ ret' = getTopVideosByViews(videoData, videoKeys, limit)
        /\ UNCHANGED <<Loader, again, App>>

CallGetTopChannelsByEngagement ==
    /\ op = "none"
    /\ \E limit \in Limits :
        /\ op' = "getTopChannelsByEngagement"
        /\ arg' = [limit |-> limit]
        /\ ret' \in getTopChannelsByEngagement(videoData, videoKeys, limit)
        /\ UNCHANGED <<Loader, again, App>>

NextAgg ==
    \/ LoadCategories
    \/ \E c \in Countries : LoadVideos(c)
    \/ CallGetViewsByCountry
    \/ CallGetCategoryDistributionByCountry
    \/ CallGetViewsVsLikes
    \/ CallGetTimelineData
    \/ CallGetTimelineDataByCountry
    \/ CallGetTopVideosByViews
    \/ CallGetTopChannelsByEngagement

SpecAgg == InitAgg /\ [][NextAgg]_vars

-----------------------------------------------------------------------------
(* Claims about the parser, checked under SpecParse *)

\* a field of views, likes, dislikes, comment_count of every row
CountKeys == {K_views, K_likes, K_dislikes, K_comment_count}

\* C2 (as claimed): every row produced by parseCSV has views, likes, dislikes
\* and comment_count >= 0, whatever the text of the numeric fields
C2_CountsNonNegative ==
    op = "parseCSV" =>
        \A k \in 1..Len(ret) : \A f \in CountKeys : ret[k][f] >= 0

\* the number of data lines the documentation says are read
DataLineCap == 1000

\* the rows of the data lines of a text, each with enough fields, in line order
RowsOfLines(headers, dataLines, country, cats) ==
    LET values == [k \in 1..Len(dataLines) |-> parseCSVLine(dataLines[k])]
        kept   == SelectSeq(values, LAMBDA v : Len(v) >= Len(headers))
    IN  [k \in 1..Len(kept) |-> MakeRow(headers, kept[k], country, cats)]

\* C3: parseCSV returns at most 1000 rows, and they are exactly the rows of
\* the first 1000 data lines after the header: no later line gives a row
C3_RowCap ==
    op = "parseCSV" =>
        LET lines == TextLines(arg.text)
            first == SubSeq(lines, 2, Min(Len(lines), DataLineCap + 1))
        IN  /\ Len(ret) <= DataLineCap
            /\ ret = RowsOfLines(Split(lines[1], ","), first, arg.country, categories)

\* C3 witness: a text with more than 1000 data lines was parsed into 1000 rows
C3_Witness ==
    /\ op = "parseCSV"
    /\ Len(TextLines(arg.text)) > DataLineCap + 1
    /\ Len(ret) = DataLineCap

\* the commas of a line that lie outside quoted spans: an even number of
\* quote characters precedes them
OutsideCommas(line) ==
    {i \in 1..Len(line) :
        /\ line[i] = ","
        /\ Cardinality({j \in 1..(i - 1) : line[j] = "\""}) % 2 = 0}

\* the position of the k-th outside comma; 0 before the first, Len + 1 after the last
CutAt(line, k) ==
    LET cs == OutsideCommas(line)
    IN  IF k = 0 THEN 0
        ELSE IF k > Cardinality(cs) THEN Len(line) + 1
        ELSE CHOOSE i \in cs : Cardinality({j \in cs : j <= i}) = k

\* C4: parseCSVLine returns one field more than there are commas outside
\* quotes, and field k is the text between the (k-1)-th and the k-th such
\* comma without its quote characters, commas inside quotes included
C4_SplitOutsideQuotes ==
    op = "parseCSVLine" =>
        /\ Len(ret) = Cardinality(OutsideCommas(arg)) + 1
        /\ \A k \in 1..Len(ret) :
              ret[k] = SelectSeq(SubSeq(arg, CutAt(arg, k - 1) + 1, CutAt(arg, k) - 1),
                                 LAMBDA c : c # "\"")

\* C4 witness: a line with a comma inside quotes and a comma outside was split,
\* and a returned field holds a comma
C4_Witness ==
    /\ op = "parseCSVLine"
    /\ OutsideCommas(arg) # {}
    /\ \E i \in 1..Len(arg) : arg[i] = "," /\ i \notin OutsideCommas(arg)
    /\ \E k \in 1..Len(ret) : \E i \in 1..Len(ret[k]) : ret[k][i] = ","

\* a part of a date string that is an unsigned integer, and its value
IsNumeral(s) ==
    /\ Trim(s) # <<>>
    /\ \A i \in 1..Len(Trim(s)) : IsDigit(Trim(s)[i])

NumeralValue(s) == DigitsFrom(Trim(s), 1, 0)

IsLeapYear(y) == (y % 4 = 0 /\ y % 100 # 0) \/ y % 400 = 0

DaysInMonth(y, m) ==
    IF m = 2 THEN (IF IsLeapYear(y) THEN 29 ELSE 28)
    ELSE IF m \in {4, 6, 9, 11} THEN 30 ELSE 31

ThreeNumerals(s) ==
    LET parts == Split(s, ".")
    IN  Len(parts) = 3 /\ \A i \in 1..3 : IsNumeral(parts[i])

\* the date returned for s is year 2000+YY, month MM, day DD
IsDateOfParts(date, s) ==
    LET parts == Split(s, ".")
    IN  /\ date.kind = "date"
        /\ CivilFromDays(date.t) = [year  |-> 2000 + NumeralValue(parts[1]),
                                    month |-> NumeralValue(parts[3]),
                                    day   |-> NumeralValue(parts[2])]

\* C5 (as claimed): for every string of three dot-separated numbers YY.DD.MM
\* parseTrendingDate returns the date with year 2000+YY, month MM, day DD
C5_AnyThreeNumbers ==
    (op = "parseTrendingDate" /\ ThreeNumerals(arg)) => IsDateOfParts(ret, arg)

\* MM is a month and DD a day of that month in year 2000+YY
IsCalendarDate(s) ==
    LET parts == Split(s, ".")
        mm == NumeralValue(parts[3])
        dd == NumeralValue(parts[2])
    IN  /\ mm \in 1..12
        /\ dd \in 1..DaysInMonth(2000 + NumeralValue(parts[1]), mm)

\* C5 (amended): for a string YY.DD.MM of three unsigned integers with MM in
\* 1..12 and DD a day of month MM of year 2000+YY, parseTrendingDate returns
\* the date with year 2000+YY, month MM and day DD
C5_CalendarDate ==
    (op = "parseTrendingDate" /\ ThreeNumerals(arg) /\ IsCalendarDate(arg))
        => IsDateOfParts(ret, arg)

\* C5 witness: "17.14.11" was parsed to 2017-11-14, day 17484 of the epoch
C5_Witness ==
    /\ op = "parseTrendingDate"
    /\ arg = <<"1", "7", ".", "1", "4", ".", "1", "1">>
    /\ ret = [kind |-> "date", t |-> 17484]
    /\ CivilFromDays(ret.t) = [year |-> 2017, month |-> 11, day |-> 14]

\* a trending-date string that is not three dot-separated numbers
IsMalformedDate(s) == ~ThreeNumerals(s)

\* C6 (as claimed): for every malformed trending-date string parseTrendingDate
\* returns null, and parseCSV keeps the row, its parsed date being null
C6_MalformedGivesNull ==
    /\ (op = "parseTrendingDate" /\ IsMalformedDate(arg)) => ret = NullDate
    /\ op = "parseCSV" =>
          \A k \in 1..Len(ret) :
              (K_trending_date_parsed \in DOMAIN ret[k]
                    /\ IsMalformedDate(ret[k][K_trending_date]))
                 => ret[k][K_trending_date_parsed] = NullDate

\* the text fields of the kept lines of a text, before any conversion
RawRows(text) ==
    LET lines   == TextLines(text)
        headers == Split(lines[1], ",")
        data    == SubSeq(lines, 2, Min(Len(lines), DataLineCap + 1))
        values  == [k \in 1..Len(data) |-> parseCSVLine(data[k])]
        kept    == SelectSeq(values, LAMBDA v : Len(v) >= Len(headers))
    IN  [k \in 1..Len(kept) |-> HeaderRow(headers, kept[k])]

HasCategoryName(row) ==
    /\ K_category_name \in DOMAIN row
    /\ row[K_category_name] # Undefined
    /\ row[K_category_name] # <<>>

\* C7 (as claimed): every row has a defined, non-empty category_name: the title
\* mapped to its category id, and "Unknown" when the id is not in the map,
\* could not be parsed, or the country has no map
C7_UnknownWhenUnparsed ==
    op = "parseCSV" =>
        /\ Len(ret) = Len(RawRows(arg.text))
        /\ \A k \in 1..Len(ret) :
              LET id == parseInt(Get(RawRows(arg.text)[k], K_category_id))
                  c  == arg.country
              IN  /\ HasCategoryName(ret[k])
                  /\ ret[k][K_category_name] =
                        IF c \in DOMAIN categories /\ ~id.nan /\ id.v \in DOMAIN categories[c]
                        THEN categories[c][id.v]
                        ELSE S_Unknown

\* C7 (amended): every row has a defined, non-empty category_name: the title
\* mapped to its category id (0 when the id could not be parsed) when the
\* country's map holds a non-empty title for that id, and "Unknown" otherwise
C7_CategoryNameDefined ==
    op = "parseCSV" =>
        /\ Len(ret) = Len(RawRows(arg.text))
        /\ \A k \in 1..Len(ret) :
              LET p  == parseInt(Get(RawRows(arg.text)[k], K_category_id))
                  id == IF p.nan THEN 0 ELSE p.v
                  c  == arg.country
                  mapped == /\ c \in DOMAIN categories
                            /\ id \in DOMAIN categories[c]
                            /\ categories[c][id] # <<>>
              IN  /\ HasCategoryName(ret[k])
                  /\ mapped => ret[k][K_category_name] = categories[c][id]
                  /\ ~mapped => ret[k][K_category_name] = S_Unknown

\* C7 witness: a text was parsed into a row named by its country's map and a
\* row named "Unknown" because its id could not be parsed
C7_Witness ==
    /\ op = "parseCSV"
    /\ arg.country \in DOMAIN categories
    /\ \E k \in 1..Len(ret) : ret[k][K_category_name] = S_Music
    /\ \E k \in 1..Len(ret) :
          /\ parseInt(Get(RawRows(arg.text)[k], K_category_id)).nan
          /\ ret[k][K_category_name] = S_Unknown

-----------------------------------------------------------------------------
(* Claims about the aggregation methods, checked under SpecAgg *)

\* the sum of a sequence of numbers, taken from its end
RECURSIVE TotalOf(_)
TotalOf(s) == IF s = <<>> THEN 0 ELSE s[Len(s)] + TotalOf(SubSeq(s, 1, Len(s) - 1))

\* the views of a country's rows, in order
ViewsOf(c) == [i \in 1..Len(videoData[c]) |-> videoData[c][i][K_views]]

\* C1: for every loaded country with at least one row, getViewsByCountry
\* returns totalViews equal to the sum of the views of the country's rows,
\* videoCount equal to the number of its rows and avgViews equal to
\* totalViews / videoCount; two rows with views 100 and 300 give 400, 200, 2.
C1_ViewsByCountry ==
    op = "getViewsByCountry" =>
        /\ ~ret.threw
        /\ \A c \in DOMAIN videoData :
              Len(videoData[c]) > 0 =>
                 /\ c \in DOMAIN ret.value
                 /\ ret.value[c].totalViews = TotalOf(ViewsOf(c))
                 /\ ret.value[c].videoCount = Len(videoData[c])
                 /\ ret.value[c].avgViews.kind = "number"
                 /\ ret.value[c].avgViews.num * ret.value[c].videoCount
                       = ret.value[c].totalViews * ret.value[c].avgViews.den
                 /\ ViewsOf(c) = <<100, 300>> =>
                       /\ ret.value[c].totalViews = 400
                       /\ ret.value[c].avgViews = [kind |-> "number", num |-> 200, den |-> 1]
                       /\ ret.value[c].videoCount = 2

\* C1 witness: getViewsByCountry has returned 400, 200, 2 for a country with
\* the rows of views 100 and 300, next to another country with other rows
C1_Witness ==
    /\ op = "getViewsByCountry"
    /\ \E c, d \in DOMAIN videoData :
          /\ ViewsOf(c) = <<100, 300>>
          /\ ret.value[c].totalViews = 400
          /\ ret.value[c].avgViews.num = 200
          /\ ret.value[c].videoCount = 2
          /\ Len(videoData[d]) > 0
          /\ ret.value[d].totalViews # 400

\* the rows the country argument of the last call selects
Selected == VideosOf(videoData, videoKeys, arg.country)

\* C8: for every sample size (a count: 0, 1, 2, ...), country and filter
\* range, getViewsVsLikes returns at most sampleSize items, each with
\* views > 0, likes > 0, minViews <= views <= maxViews and
\* minLikes <= likes <= maxLikes, an absent bound being no bound.
C8_SampleWithinBounds ==
    op = "getViewsVsLikes" =>
        /\ ~ret.threw
        /\ Len(ret.value) <= arg.sampleSize
        /\ \A i \in 1..Len(ret.value) :
              /\ ret.value[i].views > 0
              /\ ret.value[i].likes > 0
              /\ "minViews" \in DOMAIN arg.filters => ret.value[i].views >= arg.filters["minViews"]
              /\ "maxViews" \in DOMAIN arg.filters => ret.value[i].views <= arg.filters["maxViews"]
              /\ "minLikes" \in DOMAIN arg.filters => ret.value[i].likes >= arg.filters["minLikes"]
              /\ "maxLikes" \in DOMAIN arg.filters => ret.value[i].likes <= arg.filters["maxLikes"]

\* C8 witness: getViewsVsLikes has cut its result to the sample size while a
\* row with positive views and likes lay above a max bound, one below a min
\* bound, and more rows than the sample size lay within the bounds
C8_Witness ==
    /\ op = "getViewsVsLikes"
    /\ arg.sampleSize > 0
    /\ Len(ret.value) = arg.sampleSize
    /\ "maxViews" \in DOMAIN arg.filters
    /\ \E i \in 1..Len(Selected) :
          /\ Selected[i][K_views] > arg.filters["maxViews"]
          /\ Selected[i][K_likes] > 0
    /\ \E i \in 1..Len(Selected) :
          /\ Selected[i][K_views] > 0
          /\ Selected[i][K_likes] > 0
          /\ Selected[i][K_likes] < arg.filters["minLikes"]
    /\ Cardinality({i \in 1..Len(Selected) :
                       /\ Selected[i][K_views] > 0
                       /\ Selected[i][K_views] <= arg.filters["maxViews"]
                       /\ Selected[i][K_likes] >= arg.filters["minLikes"]}) > arg.sampleSize

\* C9: every aggregation method returns and does not throw, whatever is
\* loaded: no data, a country without rows, a country code never loaded, or
\* rows with defaulted fields (an unparsed trending date, no title, no channel).
C9_NeverThrows == op \in AggOps => ~ret.threw

-----------------------------------------------------------------------------
(* Claims about the loader, checked under Spec *)

\* C10: loadVideoData starts every fetch before any of them is awaited,
\* isLoaded becomes true only once every callback has settled, a country whose
\* fetch failed is reported as a failed result, and the rows of every country
\* whose file arrived are stored whatever happened to the others: one row per
\* data line as soon as its callback is done, and when loading has finished
\* exactly the rows parseCSV gives for its file.
C10_FanOutJoinAll ==
    /\ \A c, d \in Countries : vidFetch[c].at # "idle" => vidFetch[d].at # "idle"
    /\ isLoaded =>
          /\ \A c \in Countries : vidFetch[c].at \in {"done", "failed"}
          /\ DOMAIN results = Countries
          /\ \A c \in Countries :
                /\ results[c].country = c
                /\ results[c].success = (vidFetch[c].at = "done")
                /\ results[c].success => results[c].count = Len(videoData[c])
    /\ \A c \in Countries :
          /\ vidFetch[c].at = "done" =>
                /\ c \in DOMAIN videoData
                /\ Len(videoData[c]) = Len(vidFetch[c].body) - 1
                /\ isLoaded => videoData[c] = parseCSV(vidFetch[c].body, c, categories)
          /\ vidFetch[c].at # "done" => c \notin DOMAIN videoData

\* C10 witness: loading has finished with one country failed and another
\* country's rows stored
C10_Witness ==
    /\ isLoaded
    /\ \E c, d \in Countries :
          /\ vidFetch[c].at = "failed"
          /\ ~results[c].success
          /\ vidFetch[d].at = "done"
          /\ results[d].success
          /\ Len(videoData[d]) > 0

-----------------------------------------------------------------------------
(* DataLoader: the tag methods (getTagEvolutionData, getTagRacingData,     *)
(* getTagFlowData) and getPublishingTimingData                              *)

\* video.tags.split('|').map(tag => tag.replace(/"/g, '').trim().toLowerCase()),
\* toLowerCase on the letters A-Z
rawTags(tags) ==
    LET upper == <<"A", "B", "C", "D", "E", "F", "G", "H", "I", "J", "K", "L", "M",
                   "N", "O", "P", "Q", "R", "S", "T", "U", "V", "W", "X", "Y", "Z">>
        lower == <<"a", "b", "c", "d", "e", "f", "g", "h", "i", "j", "k", "l", "m",
                   "n", "o", "p", "q", "r", "s", "t", "u", "v", "w", "x", "y", "z">>
        toLowerCase(s) ==
            [i \in 1..Len(s) |->
                IF \E k \in 1..26 : upper[k] = s[i]
                THEN lower[CHOOSE k \in 1..26 : upper[k] = s[i]]
                ELSE s[i]]
        pieces == Split(tags, "|")
    IN  [i \in 1..Len(pieces) |->
            toLowerCase(Trim(SelectSeq(pieces[i], LAMBDA c : c # "\"")))]

\* const nonePatterns = [...]
nonePatterns ==
    { <<"n", "o", "n", "e">>, <<"[", "n", "o", "n", "e", "]">>, <<"n", "/", "a">>, <<"n", "a">>,
      <<"n", "u", "l", "l">>, <<"u", "n", "d", "e", "f", "i", "n", "e", "d">>,
      <<"n", "o", " ", "t", "a", "g">>, <<"n", "o", " ", "t", "a", "g", "s">>,
      <<"n", "o", "t", "a", "g">>, <<"n", "o", "t", "a", "g", "s">>,
      <<"e", "m", "p", "t", "y">>, <<"b", "l", "a", "n", "k">>,
      <<"-">>, <<"_">>, <<".">>,
      <<"[", "n", "/", "a", "]">>, <<"[", "n", "a", "]">>,
      <<"[", "n", "u", "l", "l", "]">>, <<"[", "e", "m", "p", "t", "y", "]">>,
      <<"[", "b", "l", "a", "n", "k", "]">> }

\* the tests of a tag filter as a mutant: no test of the bracketed forms
PassesPatternsUnbracketed(tag, maxLength) ==
    /\ tag # <<>>
    /\ Len(tag) > 2
    /\ Len(tag) < maxLength
    /\ tag \notin nonePatterns

\* the tests the three tag filters share: not empty, the length window, the
\* exact none patterns and their bracketed forms
PassesPatterns(tag, maxLength) ==
    /\ tag # <<>>
    /\ Len(tag) > 2
    /\ Len(tag) < maxLength
    /\ tag \notin nonePatterns
    /\ ~(/\ Head(tag) = "[" /\ tag[Len(tag)] = "]"
         /\ SubSeq(tag, 2, Len(tag) - 1) \in nonePatterns)

\* the filter callback of getTagEvolutionData and getTagRacingData: the
\* shared tests, then "none" as a word of the tag
IsTimelineTag(tag) ==
    LET none == <<"n", "o", "n", "e">>
        includes(sub) ==
            \E i \in 1..(Len(tag) - Len(sub) + 1) : SubSeq(tag, i, i + Len(sub) - 1) = sub
    IN  /\ PassesPatterns(tag, 30)
        /\ ~(/\ includes(none)
             /\ \/ tag = none
                \/ SubSeq(tag, 1, 5) = none \o <<" ">>
                \/ SubSeq(tag, Len(tag) - 4, Len(tag)) = <<" ">> \o none
                \/ includes(<<" ">> \o none \o <<" ">>))

\* videoTags of getTagEvolutionData / getTagRacingData as a mutant: no slice
videoTagsUncapped(tags) == SelectSeq(rawTags(tags), IsTimelineTag)

\* videoTags of getTagEvolutionData / getTagRacingData: rawTags.filter(...).slice(0, 8)
videoTags(tags) == Slice(SelectSeq(rawTags(tags), IsTimelineTag), 8)

\* videoTags of getTagFlowData: rawTags.filter(...) with the shared tests only
\* and a maximal length of 24
flowTags(tags) == SelectSeq(rawTags(tags), LAMBDA tag : PassesPatterns(tag, 25))

\* the sum of seq[lo..hi], as the running += of a forEach leaves it
RECURSIVE SumSeq(_, _, _)
SumSeq(seq, lo, hi) ==
    IF lo > hi THEN 0
    ELSE IF lo = hi THEN seq[lo]
    ELSE LET mid == (lo + hi) \div 2
         IN  SumSeq(seq, lo, mid) + SumSeq(seq, mid + 1, hi)

\* the arrays of seqs[lo..hi] one after the other, as a forEach inside a
\* forEach visits their elements
RECURSIVE Concat(_, _, _)
Concat(seqs, lo, hi) ==
    IF lo > hi THEN <<>>
    ELSE IF lo = hi THEN SubSeq(seqs[lo], 1, Len(seqs[lo]))
    ELSE LET mid == (lo + hi) \div 2
         IN  Concat(seqs, lo, mid) \o Concat(seqs, mid + 1, hi)

\* Object.entries / Object.values / Object.keys of an object whose keys were
\* set in the order of seq (a key may come again): the keys that are array
\* indexes first, in ascending order, then the others in insertion order
ObjectKeys(seq) ==
    LET firsts   == SelectSeq(SubSeq([p \in 1..Len(seq) |-> p], 1, Len(seq)),
                              LAMBDA p : \A q \in 1..(p - 1) : seq[q] # seq[p])
        inserted == SubSeq([k \in 1..Len(firsts) |-> seq[firsts[k]]], 1, Len(firsts))
        indexes  == SelectSeq(inserted, IsIndexKey)
        others   == SelectSeq(inserted, LAMBDA k : ~IsIndexKey(k))
        all      == {indexes[i] : i \in 1..Len(indexes)}
    IN  [p \in 1..Len(indexes) |->
            CHOOSE k \in all : Cardinality({a \in all : NumeralLess(a, k)}) = p - 1] \o others

\* nodeIndex of getTagFlowData as a mutant: a category node is numbered by
\* its index among the categories
nodeIndexNoOffset(topTags, topCategories) ==
    [k \in {<<"tag", topTags[i]>> : i \in 1..Len(topTags)}
           \cup {<<"category", topCategories[i]>> : i \in 1..Len(topCategories)} |->
        IF k[1] = "tag"
        THEN (CHOOSE i \in 1..Len(topTags) : topTags[i] = k[2]) - 1
        ELSE (CHOOSE i \in 1..Len(topCategories) : topCategories[i] = k[2]) - 1]

\* nodeIndex of getTagFlowData once both forEach loops have run: the key
\* `tag_${tag}` is kept as <<"tag", tag>>, `category_${category}` as
\* <<"category", category>>; the values are array indexes, counted from 0
nodeIndex(topTags, topCategories) ==
    [k \in {<<"tag", topTags[i]>> : i \in 1..Len(topTags)}
           \cup {<<"category", topCategories[i]>> : i \in 1..Len(topCategories)} |->
        IF k[1] = "tag"
        THEN (CHOOSE i \in 1..Len(topTags) : topTags[i] = k[2]) - 1
        ELSE Len(topTags) + (CHOOSE i \in 1..Len(topCategories) : topCategories[i] = k[2]) - 1]

\* the filter of significantFlows as a mutant: the count must exceed minFlowValue
IsSignificantFlowAbove(pair, minFlowValue, topTags, topCategories) ==
    /\ pair.count > minFlowValue
    /\ \E i \in 1..Len(topTags) : topTags[i] = pair.tag
    /\ \E i \in 1..Len(topCategories) : topCategories[i] = pair.category

\* the filter of significantFlows
IsSignificantFlow(pair, minFlowValue, topTags, topCategories) ==
    /\ pair.count >= minFlowValue
    /\ \E i \in 1..Len(topTags) : topTags[i] = pair.tag
    /\ \E i \in 1..Len(topCategories) : topCategories[i] = pair.category

\* getTagFlowData(selectedCountry, filterType).  occ holds one entry for
\* every run of the inner forEach: a kept tag of a row that has tags and a
\* category name.  The arrow of a pair key is the one character "->".
\* countryName is kept as the code getCountryName is called with.  The
\* steps of the method follow one another as operators: the forEach (occ),
\* the top tags and categories, the flows, the nodes and links.
getTagFlowData(data, keys, selectedCountry, filterType) ==
    LET truthy(s) == s # Undefined /\ s # <<>>
        round(a, b) == (2 * a + b) \div (2 * b)
        preset ==
            CASE filterType = "focused" -> [minFlowValue |-> 8, tagLimit |-> 12, categoryLimit |-> 6]
              [] filterType = "detailed" -> [minFlowValue |-> 3, tagLimit |-> 20, categoryLimit |-> 8]
              [] OTHER -> [minFlowValue |-> 5, tagLimit |-> 15, categoryLimit |-> 7]
        \* the return statement
        returned(topTags, topCategories, tagNodes, categoryNodes, links) ==
            [nodes           |-> tagNodes \o categoryNodes,
             links           |-> links,
             selectedCountry |-> selectedCountry,
             countryName     |-> IF selectedCountry = "global" THEN "Global" ELSE selectedCountry,
             stats           |-> [totalTags       |-> Len(topTags),
                                  totalCategories |-> Len(topCategories),
                                  totalFlows      |-> Len(links),
                                  minFlowValue    |-> preset.minFlowValue]]
        \* significantFlows.forEach: if (sourceIndex !== undefined && targetIndex !== undefined)
        linksOf(linked, index) ==
            [i \in 1..Len(linked) |->
                [source     |-> index[<<"tag", linked[i].tag>>],
                 target     |-> index[<<"category", linked[i].category>>],
                 value      |-> linked[i].count,
                 tag        |-> linked[i].tag,
                 category   |-> linked[i].category,
                 totalViews |-> linked[i].totalViews,
                 totalLikes |-> linked[i].totalLikes,
                 avgViews   |-> round(linked[i].totalViews, linked[i].count),
                 avgLikes   |-> round(linked[i].totalLikes, linked[i].count)]]
        tagNodesOf(topTags, tagInfo) ==
            [i \in 1..Len(topTags) |->
                [id         |-> <<"tag", i - 1>>,
                 name       |-> topTags[i],
                 type       |-> "tag",
                 count      |-> tagInfo[i].count,
                 totalViews |-> tagInfo[i].totalViews,
                 avgViews   |-> round(tagInfo[i].totalViews, tagInfo[i].count),
                 categories |-> Cardinality(tagInfo[i].categories)]]
        categoryNodesOf(topCategories, categoryInfo) ==
            [i \in 1..Len(topCategories) |->
                [id         |-> <<"category", i - 1>>,
                 name       |-> topCategories[i],
                 type       |-> "category",
                 count      |-> categoryInfo[i].count,
                 totalViews |-> categoryInfo[i].totalViews,
                 avgViews   |-> round(categoryInfo[i].totalViews, categoryInfo[i].count),
                 tags       |-> Cardinality(categoryInfo[i].tags)]]
        \* tagStats[tag] and categoryStats[category] after the forEach
        tagStats(occ, tag) ==
            LET of == SelectSeq(occ, LAMBDA o : o.tag = tag)
            IN  [count      |-> Len(of),
                 totalViews |-> SumSeq([p \in 1..Len(of) |-> of[p].views], 1, Len(of)),
                 categories |-> {of[p].category : p \in 1..Len(of)}]
        categoryStats(occ, category) ==
            LET of == SelectSeq(occ, LAMBDA o : o.category = category)
            IN  [count      |-> Len(of),
                 totalViews |-> SumSeq([p \in 1..Len(of) |-> of[p].views], 1, Len(of)),
                 tags       |-> {of[p].tag : p \in 1..Len(of)}]
        \* tagCategoryPairs[key] after the forEach
        tagCategoryPairs(occ, key) ==
            LET of == SelectSeq(occ, LAMBDA o : o.pairKey = key)
            IN  [tag        |-> of[1].tag,
                 category   |-> of[1].category,
                 count      |-> Len(of),
                 totalViews |-> SumSeq([p \in 1..Len(of) |-> of[p].views], 1, Len(of)),
                 totalLikes |-> SumSeq([p \in 1..Len(of) |-> of[p].likes], 1, Len(of))]
        built(occ, topTags, topCategories, significantFlows, index) ==
            returned(topTags, topCategories,
                     tagNodesOf(topTags,
                                SubSeq([i \in 1..Len(topTags) |-> tagStats(occ, topTags[i])],
                                       1, Len(topTags))),
                     categoryNodesOf(topCategories,
                                     SubSeq([i \in 1..Len(topCategories) |->
                                                categoryStats(occ, topCategories[i])],
                                            1, Len(topCategories))),
                     linksOf(SelectSeq(significantFlows,
                                 LAMBDA flow : /\ <<"tag", flow.tag>> \in DOMAIN index
                                               /\ <<"category", flow.category>> \in DOMAIN index),
                             index))
        filtered(occ, pairKeys, topTags, topCategories) ==
            built(occ, topTags, topCategories,
                  SelectSeq([i \in 1..Len(pairKeys) |-> tagCategoryPairs(occ, pairKeys[i])],
                            LAMBDA pair : IsSignificantFlow(pair, preset.minFlowValue,
                                                            topTags, topCategories)),
                  nodeIndex(topTags, topCategories))
        top(entries, counts, limit) == Slice(SortDesc(entries, counts), limit)
        ranked(occ, pairKeys, tagKeys, categoryKeys) ==
            filtered(occ, pairKeys,
                     top(tagKeys,
                         SubSeq([i \in 1..Len(tagKeys) |-> tagStats(occ, tagKeys[i]).count],
                                1, Len(tagKeys)),
                         preset.tagLimit),
                     top(categoryKeys,
                         SubSeq([i \in 1..Len(categoryKeys) |->
                                    categoryStats(occ, categoryKeys[i]).count],
                                1, Len(categoryKeys)),
                         preset.categoryLimit))
        counted(occ) ==
            ranked(occ,
                   ObjectKeys(SubSeq([p \in 1..Len(occ) |-> occ[p].pairKey], 1, Len(occ))),
                   ObjectKeys(SubSeq([p \in 1..Len(occ) |-> occ[p].tag], 1, Len(occ))),
                   ObjectKeys(SubSeq([p \in 1..Len(occ) |-> occ[p].category], 1, Len(occ))))
        occOf(used) ==
            Concat([i \in 1..Len(used) |->
                       LET category == Trim(used[i][K_category_name])
                           tags     == flowTags(used[i][K_tags])
                       IN  [j \in 1..Len(tags) |->
                               [tag      |-> tags[j],
                                category |-> category,
                                pairKey  |-> tags[j] \o <<"->">> \o category,
                                views    |-> used[i][K_views],
                                likes    |-> used[i][K_likes]]]],
                   1, Len(used))
        videosToProcess ==
            IF selectedCountry = "global" THEN Flat(data, keys)
            ELSE IF selectedCountry \in DOMAIN data THEN data[selectedCountry]
            ELSE <<>>
    IN  counted(occOf(SelectSeq(videosToProcess,
                          LAMBDA v : truthy(Get(v, K_tags)) /\ truthy(Get(v, K_category_name)))))

\* significantTags as a mutant: no sort
significantTagsUnsorted(entries, totals, filterType) ==
    LET preset ==
            CASE filterType = "top-tags" -> [tagLimit |-> 10, minOccurrences |-> 10]
              [] filterType = "trending" -> [tagLimit |-> 8, minOccurrences |-> 15]
              [] OTHER -> [tagLimit |-> 15, minOccurrences |-> 5]
        kept == SelectSeq(entries, LAMBDA tag : totals[tag] >= preset.minOccurrences)
    IN  Slice(kept, preset.tagLimit)

\* significantTags of getTagRacingData and getTagEvolutionData: the switch on
\* filterType, then Object.entries(...).filter(...).sort(...).slice(0, tagLimit)
\* on the tags in key order, totals[tag] the sum of the tag's counts
significantTags(entries, totals, filterType) ==
    LET preset ==
            CASE filterType = "top-tags" -> [tagLimit |-> 10, minOccurrences |-> 10]
              [] filterType = "trending" -> [tagLimit |-> 8, minOccurrences |-> 15]
              [] OTHER -> [tagLimit |-> 15, minOccurrences |-> 5]
        kept == SelectSeq(entries, LAMBDA tag : totals[tag] >= preset.minOccurrences)
    IN  Slice(SortDesc(kept, SubSeq([i \in 1..Len(kept) |-> totals[kept[i]]], 1, Len(kept))),
              preset.tagLimit)

\* weekNumber of getTagRacingData for a valid Date: the whole weeks of
\* milliseconds between local midnight of 1 January of the date's year and
\* local midnight of the date.  dstHours is the daylight-saving shift of the
\* time zone the program runs in (0 where there is none): a date of April to
\* October is that many hours nearer to 1 January.
weekNumber(trendingDate, dstHours) ==
    LET civil == CivilFromDays(trendingDate.t)
        jan1  == DaysFromCivil(civil.year, 1, 1)
        shift == IF civil.month \in 4..10 THEN dstHours ELSE 0
    IN  (24 * (trendingDate.t - jan1) - shift) \div (7 * 24)

\* periodKey of getTagRacingData: `Week ${weekNumber + 1}`, "Week NaN" for an
\* Invalid Date
periodKey(trendingDate, dstHours) ==
    LET n == weekNumber(trendingDate, dstHours) + 1
    IN  <<"W", "e", "e", "k", " ">> \o
        (IF trendingDate.kind = "invalid" THEN <<"N", "a", "N">>
         ELSE IF n < 10 THEN <<Digits[n + 1]>>
         ELSE <<Digits[(n \div 10) + 1], Digits[(n % 10) + 1]>>)

\* getTagRacingData(filterType, selectedCountry), run in a time zone whose
\* daylight-saving shift is dstHours.  occ holds one entry for every run of
\* the inner forEach: a kept tag of a row that has tags and a trending date.
\* The steps of the method follow one another as operators.
getTagRacingData(data, keys, filterType, selectedCountry, dstHours) ==
    LET truthy(s) == s # Undefined /\ s # <<>>
        \* Array.from(periods).sort(): by UTF-16 code units, a digit below "N"
        code(c) == IF IsDigit(c) THEN DigitVal(c) ELSE 10
        less(a, b) ==
            \E i \in 1..Len(b) :
                /\ \A j \in 1..(i - 1) : j <= Len(a) /\ a[j] = b[j]
                /\ (i > Len(a) \/ code(a[i]) < code(b[i]))
        sorted(periods) ==
            SubSeq([p \in 1..Cardinality(periods) |->
                       CHOOSE a \in periods : Cardinality({b \in periods : less(b, a)}) = p - 1],
                   1, Cardinality(periods))
        periodData(occ, significant, period) ==
            SubSeq([i \in 1..Len(significant) |->
                       LET of == SelectSeq(occ, LAMBDA o : /\ o.tag = significant[i]
                                                           /\ o.period = period)
                       IN  [tag        |-> significant[i],
                            count      |-> Len(of),
                            totalViews |-> SumSeq([q \in 1..Len(of) |-> of[q].views], 1, Len(of)),
                            totalLikes |-> SumSeq([q \in 1..Len(of) |-> of[q].likes], 1, Len(of))]],
                   1, Len(significant))
        byCount(entries) ==
            SortDesc(entries, SubSeq([i \in 1..Len(entries) |-> entries[i].count], 1, Len(entries)))
        returned(occ, significant, sortedPeriods) ==
            [racingData |-> [p \in 1..Len(sortedPeriods) |->
                                [period |-> sortedPeriods[p],
                                 tags   |-> byCount(periodData(occ, significant, sortedPeriods[p]))]],
             tags       |-> significant,
             periods    |-> sortedPeriods,
             stats      |-> [totalTags |-> Len(significant), totalPeriods |-> Len(sortedPeriods)]]
        ranked(occ, tagKeys, periods) ==
            returned(occ,
                     significantTags(tagKeys,
                                     [tag \in {tagKeys[i] : i \in 1..Len(tagKeys)} |->
                                         Len(SelectSeq(occ, LAMBDA o : o.tag = tag))],
                                     filterType),
                     sorted(periods))
        counted(occ, period) ==
            ranked(occ,
                   ObjectKeys(SubSeq([p \in 1..Len(occ) |-> occ[p].tag], 1, Len(occ))),
                   {period[i] : i \in 1..Len(period)})
        occOf(used, period) ==
            Concat([i \in 1..Len(used) |->
                       LET tags == videoTags(used[i][K_tags])
                       IN  [j \in 1..Len(tags) |->
                               [tag    |-> tags[j],
                                period |-> period[i],
                                views  |-> used[i][K_views],
                                likes  |-> used[i][K_likes]]]],
                   1, Len(used))
        periodsOf(used) ==
            SubSeq([i \in 1..Len(used) |->
                       periodKey(used[i][K_trending_date_parsed], dstHours)], 1, Len(used))
        keyed(used, period) == counted(occOf(used, period), period)
        read(used) == keyed(used, periodsOf(used))
        videosToProcess ==
            IF selectedCountry = "global" THEN Flat(data, keys)
            ELSE IF selectedCountry \in DOMAIN data THEN data[selectedCountry]
            ELSE <<>>
    IN  read(SelectSeq(videosToProcess, LAMBDA v : truthy(Get(v, K_tags)) /\ HasDate(v)))

\* getTagEvolutionData(filterType): every row of every country, run in UTC:
\* dateKey is the ISO day of the Date, there one key per local day (see
\* dateKey for other zones), kept as the day number;
\* toISOString throws a RangeError on an Invalid Date, which the catch turns
\* into the empty result.  The steps of the method follow one another as
\* operators.
getTagEvolutionData(data, keys, filterType) ==
    LET truthy(s) == s # Undefined /\ s # <<>>
        point(of, date) ==
            [date       |-> date,
             dateKey    |-> date,
             count      |-> Len(of),
             totalViews |-> SumSeq([q \in 1..Len(of) |-> of[q].views], 1, Len(of)),
             totalLikes |-> SumSeq([q \in 1..Len(of) |-> of[q].likes], 1, Len(of)),
             avgViews   |-> IF Len(of) > 0
                            THEN Quotient(SumSeq([q \in 1..Len(of) |-> of[q].views], 1, Len(of)),
                                          Len(of))
                            ELSE Quotient(0, 1)]
        timelineData(occ, significant, sortedDates) ==
            [i \in 1..Len(significant) |->
                [tag      |-> significant[i],
                 timeline |->
                    [d \in 1..Len(sortedDates) |->
                        point(SelectSeq(occ, LAMBDA o : /\ o.tag = significant[i]
                                                        /\ o.dateKey = sortedDates[d]),
                              sortedDates[d])]]]
        stats(significant, sortedDates, totalTagUsage) ==
            [totalTags      |-> Len(significant),
             totalDates     |-> Len(sortedDates),
             totalUsage     |-> totalTagUsage,
             avgUsagePerTag |-> Quotient(totalTagUsage, Len(significant)),
             dateRange      |->
                [start |-> IF sortedDates = <<>> THEN Undefined ELSE sortedDates[1],
                 end   |-> IF sortedDates = <<>> THEN Undefined
                           ELSE sortedDates[Len(sortedDates)]]]
        returned(occ, totals, significant, sortedDates) ==
            [timelineData |-> timelineData(occ, significant, sortedDates),
             tags         |-> significant,
             dates        |-> sortedDates,
             stats        |-> stats(significant, sortedDates,
                                    SumSeq([i \in 1..Len(significant) |-> totals[significant[i]]],
                                           1, Len(significant)))]
        ranked(occ, tagKeys, totals, sortedDates) ==
            returned(occ, totals, significantTags(tagKeys, totals, filterType), sortedDates)
        totalled(occ, tagKeys, sortedDates) ==
            ranked(occ, tagKeys,
                   [tag \in {tagKeys[i] : i \in 1..Len(tagKeys)} |->
                       Len(SelectSeq(occ, LAMBDA o : o.tag = tag))],
                   sortedDates)
        counted(occ, sortedDates) ==
            totalled(occ, ObjectKeys(SubSeq([p \in 1..Len(occ) |-> occ[p].tag], 1, Len(occ))),
                     sortedDates)
        occOf(used) ==
            Concat([i \in 1..Len(used) |->
                       LET tags == videoTags(used[i][K_tags])
                       IN  [j \in 1..Len(tags) |->
                               [tag     |-> tags[j],
                                dateKey |-> used[i][K_trending_date_parsed].t,
                                views   |-> used[i][K_views],
                                likes   |-> used[i][K_likes]]]],
                   1, Len(used))
        read(used) ==
            IF \E i \in 1..Len(used) : used[i][K_trending_date_parsed].kind = "invalid"
            THEN [timelineData |-> <<>>, tags |-> <<>>, dates |-> <<>>, stats |-> <<>>]
            ELSE counted(occOf(used),
                         SortedDays({used[i][K_trending_date_parsed].t : i \in 1..Len(used)}))
    IN  read(SelectSeq(Flat(data, keys), LAMBDA v : truthy(Get(v, K_tags)) /\ HasDate(v)))

\* new Date(video.publish_time) for a string: the instant of an ISO date-time
\* "YYYY-MM-DDTHH:mm:ss.sssZ" or of an ISO date "YYYY-MM-DD" (midnight UTC),
\* as [kind, t, hour] with t the UTC day number and hour the UTC hour; a
\* string of another shape gives an Invalid Date.  The strings of the model
\* name real calendar days or have no digit at all, on which the engines agree.
NewDateOfString(s) ==
    LET digits(lo, hi) == \A i \in lo..hi : IsDigit(s[i])
        isDate == /\ Len(s) \in {10, 24}
                  /\ digits(1, 4) /\ s[5] = "-" /\ digits(6, 7) /\ s[8] = "-" /\ digits(9, 10)
        isTime == /\ Len(s) = 24
                  /\ s[11] = "T" /\ digits(12, 13) /\ s[14] = ":" /\ digits(15, 16)
                  /\ s[17] = ":" /\ digits(18, 19) /\ s[20] = "." /\ digits(21, 23)
                  /\ s[24] = "Z"
        year   == DigitsFrom(s, 1, 0)
        month  == DigitsFrom(s, 6, 0)
        day    == DigitsFrom(s, 9, 0)
        hour   == IF Len(s) = 24 THEN DigitsFrom(s, 12, 0) ELSE 0
    IN  IF /\ isDate
           /\ (Len(s) = 24 => isTime)
           /\ month \in 1..12 /\ day \in 1..31 /\ hour \in 0..23
        THEN [kind |-> "date", t |-> DaysFromCivil(year, month, day), hour |-> hour]
        ELSE [kind |-> "invalid", t |-> 0, hour |-> 0]

\* getPublishingTimingData(selectedCountry), run in a time zone tzHours east
\* of UTC.  Cell 24 * day + hour + 1 of data is the slot of that day of the
\* week and hour.  An average and a success rate are exact fractions.  The
\* steps of the method follow one another as operators.
getPublishingTimingData(data, keys, selectedCountry, tzHours) ==
    LET daysOfWeek == <<"Sunday", "Monday", "Tuesday", "Wednesday", "Thursday", "Friday", "Saturday">>
        truthy(s) == s # Undefined /\ s # <<>>
        \* Math.min(100, (avgViews / overallAvgViews) * 100) when the slot has
        \* videos and overallAvgViews > 0, else 0
        successRate(s, totalViews, totalVideos) ==
            IF s.count > 0 /\ totalVideos > 0 /\ totalViews > 0
            THEN IF 100 * s.totalViews * totalVideos >= 100 * s.count * totalViews
                 THEN Quotient(100, 1)
                 ELSE Quotient(100 * s.totalViews * totalVideos, s.count * totalViews)
            ELSE Quotient(0, 1)
        average(total, count) == IF count > 0 THEN Quotient(total, count) ELSE Quotient(0, 1)
        cell(c, s, totalViews, totalVideos) ==
            [day         |-> (c - 1) \div 24,
             dayName     |-> daysOfWeek[((c - 1) \div 24) + 1],
             hour        |-> (c - 1) % 24,
             count       |-> s.count,
             avgViews    |-> average(s.totalViews, s.count),
             avgLikes    |-> average(s.totalLikes, s.count),
             avgComments |-> average(s.totalComments, s.count),
             totalViews  |-> s.totalViews,
             successRate |-> successRate(s, totalViews, totalVideos),
             videos      |-> s.videos]
        returned(heatmapArray, rates) ==
            [data            |-> heatmapArray,
             days            |-> daysOfWeek,
             maxSuccess      |-> CHOOSE r \in rates : \A q \in rates : ~ScoreLess(r, q),
             selectedCountry |-> selectedCountry,
             countryName     |-> IF selectedCountry = "global" THEN "Global" ELSE selectedCountry]
        rated(heatmapArray) ==
            returned(heatmapArray, {heatmapArray[c].successRate : c \in 1..(7 * 24)})
        converted(timingData, totalViews, totalVideos) ==
            rated(SubSeq([c \in 1..(7 * 24) |-> cell(c, timingData[c], totalViews, totalVideos)],
                         1, 7 * 24))
        summed(timingData) ==
            converted(timingData,
                      SumSeq([c \in 1..(7 * 24) |-> timingData[c].totalViews], 1, 7 * 24),
                      SumSeq([c \in 1..(7 * 24) |-> timingData[c].count], 1, 7 * 24))
        slot(of) ==
            [count         |-> Len(of),
             totalViews    |-> SumSeq([j \in 1..Len(of) |-> of[j][K_views]], 1, Len(of)),
             totalLikes    |-> SumSeq([j \in 1..Len(of) |-> of[j][K_likes]], 1, Len(of)),
             totalComments |-> SumSeq([j \in 1..Len(of) |-> of[j][K_comment_count]], 1, Len(of)),
             videos        |-> [j \in 1..Len(of) |->
                                   [title   |-> Get(of[j], K_title),
                                    views   |-> of[j][K_views],
                                    country |-> of[j][K_country]]]]
        \* getDay() and getHours(): local time; 1 January 1970 was a Thursday
        placed(used, localHours) ==
            summed(SubSeq([c \in 1..(7 * 24) |->
                              slot(SelectSeq([i \in 1..Len(used) |->
                                                 IF /\ ((localHours[i] \div 24) + 4) % 7 = (c - 1) \div 24
                                                    /\ localHours[i] % 24 = (c - 1) % 24
                                                 THEN used[i] ELSE Undefined],
                                             LAMBDA v : v # Undefined))],
                          1, 7 * 24))
        localHour(publishDate) == 24 * publishDate.t + publishDate.hour + tzHours
        read(used) ==
            placed(used,
                   SubSeq([i \in 1..Len(used) |->
                              localHour(NewDateOfString(used[i][K_publish_time]))], 1, Len(used)))
        videosToProcess ==
            IF selectedCountry = "global" THEN Flat(data, keys)
            ELSE IF selectedCountry \in DOMAIN data THEN data[selectedCountry]
            ELSE <<>>
    IN  read(SelectSeq(videosToProcess,
                 LAMBDA v : /\ truthy(Get(v, K_publish_time))
                            /\ NewDateOfString(v[K_publish_time]).kind = "date"))

-----------------------------------------------------------------------------
(* The tag and timing methods, called on what the loader has stored; the   *)
(* loader runs in big steps as above.                                      *)

\* the category file of the tag runs: nine categories
TagCategoryPayload ==
    [hasItems |-> TRUE,
     items |-> << [id |-> 1, title |-> S_Music],
                  [id |-> 2, title |-> S_Film],
                  [id |-> 3, title |-> S_News],
                  [id |-> 4, title |-> <<"P", "e", "t", "s">>],
                  [id |-> 5, title |-> <<"C", "o", "m", "e", "d", "y">>],
                  [id |-> 6, title |-> <<"G", "a", "m", "i", "n", "g">>],
                  [id |-> 7, title |-> <<"S", "p", "o", "r", "t", "s">>],
                  [id |-> 8, title |-> <<"H", "o", "w", "t", "o">>],
                  [id |-> 9, title |-> <<"A", "u", "t", "o", "s">>] >>]

\* the tags p<lo> | ... | p<hi> of a row, two digits each
TagList(p, lo, hi) ==
    JoinWith([k \in 1..(hi - lo + 1) |->
                <<p, Digits[((lo + k - 1) \div 10) + 1], Digits[((lo + k - 1) % 10) + 1]>>], "|")

\* a row of a tag file
TagRow(date, category, published, tags, views) ==
    Video(<<"v">>, date, <<"t">>, <<"c", "h">>, category, published, tags, views,
          <<"1">>, <<"0">>, <<"0">>)

S_Nov12 == <<"1", "7", ".", "1", "2", ".", "1", "1">>

S_Nov13 == <<"1", "7", ".", "1", "3", ".", "1", "1">>

S_Jun04 == <<"1", "8", ".", "0", "4", ".", "0", "6">>

S_Published == <<"2", "0", "1", "7", "-", "1", "1", "-", "1", "0">>

S_PublishedAt(h1, h2) ==
    S_Published \o <<"T", h1, h2, ":", "3", "0", ":", "0", "0", ".", "0", "0", "0", "Z">>

\* a file of many tags and many categories: three rows of 21 tags in one
\* category, then three rows of one tag in each of eight other categories
WideText ==
    TextOf(FullColumns,
        [i \in 1..27 |->
            IF i <= 3 THEN TagRow(S_Nov13, <<"1">>, S_Published, TagList("a", 1, 21), <<"1", "0", "0">>)
            ELSE TagRow(S_Jun04, <<Digits[((i - 4) \div 3) + 3]>>, S_Published, TagList("a", 1, 1), <<"5", "0">>)])

\* a file of frequent tags: fifteen rows of the tags b01..b09, fifteen of
\* b09..b16 and one more of b09 and b10
DeepText ==
    TextOf(FullColumns,
        [i \in 1..31 |->
            IF i <= 15 THEN TagRow(S_Nov12, <<"2">>, S_Published, TagList("b", 1, 9), <<"2", "0">>)
            ELSE IF i <= 30 THEN TagRow(S_Nov13, <<"1">>, S_PublishedAt("2", "3"), TagList("b", 9, 16), <<"3", "0">>)
            ELSE TagRow(S_Jun04, <<"1">>, S_Published, TagList("b", 9, 10), <<"0">>)])

S_TooLong ==
    <<"t", "h", "i", "s", "i", "s", "t", "o", "o", "l", "o", "n", "g", "t", "o", "b", "e", "v",
      "a", "l", "i", "d", "a", "s", "a", "t", "a", "g", "b", "e", "c", "a", "u", "s", "e", "i",
      "t", "e", "x", "c", "e", "e", "d", "s", "t", "h", "i", "r", "t", "y", "c", "h", "a", "r", "s">>

\* the tag list ["gaming", "NONE", "[n/a]", "x", <a tag of 55 characters>]
S_ExampleTags ==
    JoinWith(<< <<"g", "a", "m", "i", "n", "g">>, <<"N", "O", "N", "E">>,
                <<"[", "n", "/", "a", "]">>, <<"x">>, S_TooLong >>, "|")

S_NoneToday == <<"n", "o", "n", "e", " ", "t", "o", "d", "a", "y">>

\* a file of odd rows: the example tag list, a tag with the word none and a
\* negative view count, an unparseable trending date and publish time, no
\* tags, and two rows of 5 February, of 2018 and of 2017
OddText ==
    TextOf(FullColumns,
        << TagRow(S_Nov12, <<"1">>, S_PublishedAt("1", "7"), S_ExampleTags, <<"1", "0", "0">>),
           TagRow(S_Nov13, <<"2">>, S_PublishedAt("2", "3"),
                  S_NoneToday \o <<"|", "v", "l", "o", "g">>, <<"-", "5">>),
           TagRow(<<"a", "a", ".", "b", "b", ".", "c", "c">>, <<"2">>, <<"b", "a", "d">>,
                  <<"M", "u", "s", "i", "c">>, <<"7">>),
           TagRow(S_Jun04, <<"x">>, <<>>, <<>>, <<"0">>),
           TagRow(<<"1", "8", ".", "0", "5", ".", "0", "2">>, <<"1">>, S_Published,
                  <<"v", "l", "o", "g">>, <<"1", "0">>),
           TagRow(<<"1", "7", ".", "0", "5", ".", "0", "2">>, <<"1">>, S_Published,
                  <<"v", "l", "o", "g">>, <<"1", "0">>) >>)

\* the files a country's fetch can answer with: the countries take the two
\* large files by turns, and every other country may have the file of odd
\* rows instead
TagTexts(c) ==
    LET i == CHOOSE k \in 1..Len(CountryList) : CountryList[k] = c
    IN  IF i % 2 = 0 THEN {WideText, OddText} ELSE {DeepText}

\* tag strings the filters are applied to: up to two tokens of a pool, the
\* example list, and 21 tags
TagTokens ==
    { <<"g", "a", "m", "i", "n", "g">>, <<"N", "O", "N", "E">>, <<"[", "n", "/", "a", "]">>,
      <<"x">>, S_TooLong, S_NoneToday, <<>>,
      <<"m", "y", " ", "n", "o", "n", "e", " ", "t", "a", "g">>,
      <<"n", "o", "n", "e", "s", "u", "c", "h">>,
      <<" ", "\"", "V", "l", "o", "g", "\"", " ">>,
      <<"[", "m", "u", "s", "i", "c", "]">>, <<"[", "n", "o", "t", "a", "g", "]">>,
      <<"[", "[", "n", "o", "n", "e", "]", "]">>, <<"[", "[", "n", "o", "t", "a", "g", "]", "]">>,
      SubSeq(S_TooLong, 1, 24), SubSeq(S_TooLong, 1, 25),
      SubSeq(S_TooLong, 1, 29), SubSeq(S_TooLong, 1, 30) }

TagStrings ==
    {JoinWith(s, "|") : s \in SeqsUpTo(TagTokens, 2)} \cup {S_ExampleTags, TagList("a", 1, 21)}

TagCountryArgs == Countries \cup {"global", NeverLoaded}

FlowFilterTypes == {"balanced", "focused", "detailed"}

TimelineFilterTypes == {"overview", "top-tags", "trending"}

\* daylight-saving shifts and offsets from UTC, in hours, of the time zones
\* the program is run in
DstHours == {0, 1}

TzHours == {0, -5}

\* init() up to the start of loadVideoData, the category files all alike or
\* none of them loaded
LoadTagCategories ==
    /\ pc = "new"
    /\ op = "none"
    /\ categories' \in {<<>>, [c \in Countries |-> processCategoryData(TagCategoryPayload)]}
    /\ catFetch' = [c \in Countries |->
                      [at |-> IF c \in DOMAIN categories' THEN "done" ELSE "failed", body |-> <<>>]]
    /\ vidFetch' = [c \in Countries |-> [at |-> "fetching", body |-> <<>>]]
    /\ pc' = "videos"
    /\ UNCHANGED <<videoData, videoKeys, isLoaded, results, Call, again, App>>

\* one callback of loadVideoData runs to its return
LoadTagVideos(c) ==
    /\ pc = "videos"
    /\ op = "none"
    /\ vidFetch[c].at = "fetching"
    /\ \E text \in TagTexts(c) :
          /\ videoData' = Put(videoData, c, parseCSV(text, c, categories))
          /\ videoKeys' = Append(videoKeys, c)
          /\ vidFetch' = [vidFetch EXCEPT ![c] = [at |-> "done", body |-> text]]
    /\ UNCHANGED <<categories, isLoaded, catFetch, results, pc, Call, again, App>>

\* the map, filter and slice of a tag method applied to a tags string
CallVideoTags ==
    /\ op = "none"
    /\ \E tags \in TagStrings :
        /\ op' = "videoTags"
        /\ arg' = [tags |-> tags]
        /\ ret' = [timeline |-> videoTags(tags), flow |-> flowTags(tags)]
        /\ UNCHANGED <<Loader, again, App>>

CallGetTagFlowData ==
    /\ op = "none"
    /\ \E selectedCountry \in TagCountryArgs, filterType \in FlowFilterTypes :
        /\ op' = "getTagFlowData"
        /\ arg' = [selectedCountry |-> selectedCountry, filterType |-> filterType]
        /\ ret' = getTagFlowData(videoData, videoKeys, selectedCountry, filterType)
        /\ UNCHANGED <<Loader, again, App>>

CallGetTagRacingData ==
    /\ op = "none"
    /\ \E filterType \in TimelineFilterTypes, selectedCountry \in TagCountryArgs, dstHours \in DstHours :
        /\ op' = "getTagRacingData"
        /\ arg' = [filterType |-> filterType, selectedCountry |-> selectedCountry, dstHours |-> dstHours]
        /\ ret' = getTagRacingData(videoData, videoKeys, filterType, selectedCountry, dstHours)
        /\ UNCHANGED <<Loader, again, App>>

\* getTagEvolutionData takes one parameter; a second argument is ignored
CallGetTagEvolutionData ==
    /\ op = "none"
    /\ \E filterType \in TimelineFilterTypes, selectedCountry \in TagCountryArgs :
        /\ op' = "getTagEvolutionData"
        /\ arg' = [filterType |-> filterType, selectedCountry |-> selectedCountry]
        /\ ret' = getTagEvolutionData(videoData, videoKeys, filterType)
        /\ UNCHANGED <<Loader, again, App>>

CallGetPublishingTimingData ==
    /\ op = "none"
    /\ \E selectedCountry \in TagCountryArgs, tzHours \in TzHours :
        /\ op' = "getPublishingTimingData"
        /\ arg' = [selectedCountry |-> selectedCountry, tzHours |-> tzHours]
        /\ ret' = getPublishingTimingData(videoData, videoKeys, selectedCountry, tzHours)
        /\ UNCHANGED <<Loader, again, App>>

NextTags ==
    \/ LoadTagCategories
    \/ \E c \in Countries : LoadTagVideos(c)
    \/ CallGetTagFlowData
    \/ CallGetTagRacingData
    \/ CallGetTagEvolutionData
    \/ CallGetPublishingTimingData

SpecTags == InitAgg /\ [][NextTags]_vars

\* the tag filters alone, applied to tag strings
SpecVideoTags == InitAgg /\ [][CallVideoTags]_vars

-----------------------------------------------------------------------------
(* Claims on the tag and timing methods                                    *)

\* C11: every link of getTagFlowData has a source that is the position in
\* nodes (counted from 0) of a tag node named as the link's tag and a target
\* that is the position of a category node named as the link's category; no
\* link refers to a position outside nodes
C11_LinksResolve ==
    op = "getTagFlowData" =>
        \A i \in 1..Len(ret.links) :
            LET link == ret.links[i]
            IN  /\ link.source \in 0..(Len(ret.nodes) - 1)
                /\ link.target \in 0..(Len(ret.nodes) - 1)
                /\ ret.nodes[link.source + 1].type = "tag"
                /\ ret.nodes[link.source + 1].name = link.tag
                /\ ret.nodes[link.target + 1].type = "category"
                /\ ret.nodes[link.target + 1].name = link.category

\* C11: a result with links to the second and later category nodes
C11_Witness ==
    /\ op = "getTagFlowData"
    /\ Len(ret.links) >= 2
    /\ \E i \in 1..Len(ret.links) :
          /\ ret.links[i].source > 0
          /\ ret.links[i].target > ret.stats.totalTags

\* the place of a letter in the alphabet, a capital as its small letter; 0
\* for another character
LetterRank(c) ==
    LET small == <<"a", "b", "c", "d", "e", "f", "g", "h", "i", "j", "k", "l", "m",
                   "n", "o", "p", "q", "r", "s", "t", "u", "v", "w", "x", "y", "z">>
        capital == <<"A", "B", "C", "D", "E", "F", "G", "H", "I", "J", "K", "L", "M",
                     "N", "O", "P", "Q", "R", "S", "T", "U", "V", "W", "X", "Y", "Z">>
    IN  IF \E k \in 1..26 : small[k] = c \/ capital[k] = c
        THEN CHOOSE k \in 1..26 : small[k] = c \/ capital[k] = c
        ELSE 0

\* a is at or before b in alphabetical order
AlphabeticalLeq(a, b) ==
    \/ \E i \in 1..Min(Len(a), Len(b)) :
          /\ \A j \in 1..(i - 1) : LetterRank(a[j]) = LetterRank(b[j])
          /\ LetterRank(a[i]) < LetterRank(b[i])
    \/ /\ Len(a) <= Len(b)
       /\ \A j \in 1..Len(a) : LetterRank(a[j]) = LetterRank(b[j])

\* in nodes the tag nodes come first, in descending order of count
TagNodesFirst(nodes) ==
    \A i \in 1..Len(nodes), j \in 1..Len(nodes) :
        i < j =>
            /\ ~(nodes[i].type = "category" /\ nodes[j].type = "tag")
            /\ (nodes[i].type = "tag" /\ nodes[j].type = "tag" => nodes[i].count >= nodes[j].count)

FlowPresetOf(filterType) ==
    IF filterType = "focused" THEN [minFlowValue |-> 8, tagLimit |-> 12, categoryLimit |-> 6]
    ELSE IF filterType = "detailed" THEN [minFlowValue |-> 3, tagLimit |-> 20, categoryLimit |-> 8]
    ELSE [minFlowValue |-> 5, tagLimit |-> 15, categoryLimit |-> 7]

\* the rows getTagFlowData reads for a country argument
ScopeRows(selectedCountry) ==
    IF selectedCountry = "global" THEN Flat(videoData, videoKeys)
    ELSE IF selectedCountry \in DOMAIN videoData THEN videoData[selectedCountry]
    ELSE <<>>

\* the rows getTagFlowData counts: those with tags and a category name
FlowRows(rows) ==
    SelectSeq(rows, LAMBDA v : /\ Get(v, K_tags) \notin {Undefined, <<>>}
                               /\ Get(v, K_category_name) \notin {Undefined, <<>>})

\* the elements of a sequence
Elements(seq) == {seq[i] : i \in 1..Len(seq)}

\* one pair of a tag and a category for every kept tag of every counted row
FlowOccurrences(rows) ==
    LET used == FlowRows(rows)
    IN  Concat([i \in 1..Len(used) |->
                   LET tags == flowTags(used[i][K_tags])
                   IN  [j \in 1..Len(tags) |-> <<tags[j], Trim(used[i][K_category_name])>>]],
               1, Len(used))

\* the names of the nodes of a type
NodeNames(nodes, type) ==
    {nodes[i].name : i \in {k \in 1..Len(nodes) : nodes[k].type = type}}

StoplistWords ==
    { <<"n", "o", "n", "e">>, <<"n", "/", "a">>, <<"n", "a">>, <<"n", "u", "l", "l">>,
      <<"u", "n", "d", "e", "f", "i", "n", "e", "d">>, <<"n", "o", " ", "t", "a", "g">>,
      <<"n", "o", " ", "t", "a", "g", "s">>, <<"n", "o", "t", "a", "g">>,
      <<"n", "o", "t", "a", "g", "s">>, <<"e", "m", "p", "t", "y">>,
      <<"b", "l", "a", "n", "k">>, <<"-">>, <<"_">>, <<".">> }

\* the stoplist words that the pattern list of the code also holds in brackets
BracketedInList ==
    { <<"n", "o", "n", "e">>, <<"n", "/", "a">>, <<"n", "a">>, <<"n", "u", "l", "l">>,
      <<"e", "m", "p", "t", "y">>, <<"b", "l", "a", "n", "k">> }

Bracketed(w) == <<"[">> \o w \o <<"]">>

\* the words of a token: its pieces between spaces
WordsOf(token) == Split(token, " ")

\* the tokens of a tags string: split at "|", quote characters removed,
\* trimmed, capitals made small
TokensOf(tags) ==
    LET pieces == Split(tags, "|")
        small(c) == IF LetterRank(c) > 0
                    THEN <<"a", "b", "c", "d", "e", "f", "g", "h", "i", "j", "k", "l", "m",
                           "n", "o", "p", "q", "r", "s", "t", "u", "v", "w", "x", "y", "z">>[LetterRank(c)]
                    ELSE c
    IN  [i \in 1..Len(pieces) |->
            LET clean == Trim(SelectSeq(pieces[i], LAMBDA c : c # "\""))
            IN  [k \in 1..Len(clean) |-> small(clean[k])]]

\* a token is kept by the rule of the claim: not empty, 3 to 29 characters,
\* no stoplist word and no stoplist word in brackets, no word "none"
KeptAsStated(token) ==
    /\ token # <<>>
    /\ Len(token) \in 3..29
    /\ token \notin StoplistWords
    /\ token \notin {Bracketed(w) : w \in StoplistWords}
    /\ \A i \in 1..Len(WordsOf(token)) : WordsOf(token)[i] # <<"n", "o", "n", "e">>

\* a token is kept by the amended rule: as stated, and also not one of the
\* six doubly bracketed words
KeptAsAmended(token) ==
    /\ KeptAsStated(token)
    /\ token \notin {Bracketed(Bracketed(w)) : w \in BracketedInList}

\* C14 as stated: the cleaning of getTagRacingData and getTagEvolutionData
\* keeps a token if and only if it is not empty, has 3 to 29 characters, is no
\* stoplist word or bracketed stoplist word and has no word "none"; the tags
\* gaming, NONE, [n/a], x and a token of more than 30 characters give gaming
C14_KeptIffStated ==
    op = "videoTags" =>
        /\ ret.timeline = Slice(SelectSeq(TokensOf(arg.tags), KeptAsStated), 8)
        /\ (arg.tags = S_ExampleTags => ret.timeline = << <<"g", "a", "m", "i", "n", "g">> >>)

\* C14 amended: the same, and a token that is one of none, n/a, na, null,
\* empty, blank inside two pairs of brackets is discarded as well
C14_KeptIffAmended ==
    op = "videoTags" =>
        /\ ret.timeline = Slice(SelectSeq(TokensOf(arg.tags), KeptAsAmended), 8)
        /\ (arg.tags = S_ExampleTags => ret.timeline = << <<"g", "a", "m", "i", "n", "g">> >>)

\* C14: the example list has been cleaned
C14_Witness ==
    /\ op = "videoTags"
    /\ arg.tags = S_ExampleTags
    /\ Len(TokensOf(arg.tags)) = 5
    /\ Len(ret.timeline) = 1

\* C15: getTagFlowData applies the discard rules of getTagRacingData and
\* getTagEvolutionData but for the maximal length (25 for 30) and the missing
\* cap of 8 tags a row: its tags are the tokens the timeline rule keeps that
\* are shorter than 25, so a tag with the word none, as "none today", is
\* discarded by all three
C15_SameDiscardRules ==
    op = "videoTags" =>
        /\ ret.flow = SelectSeq(rawTags(arg.tags), LAMBDA tag : IsTimelineTag(tag) /\ Len(tag) < 25)
        /\ S_NoneToday \notin Elements(ret.flow)

\* the preset of getTagRacingData and getTagEvolutionData for a filter type,
\* as the claim gives it
TimelinePresetOf(filterType) ==
    IF filterType = "top-tags" THEN [tagLimit |-> 10, minOccurrences |-> 10]
    ELSE IF filterType = "trending" THEN [tagLimit |-> 8, minOccurrences |-> 15]
    ELSE [tagLimit |-> 15, minOccurrences |-> 5]

\* the rows in scope of the timeline method called: getTagEvolutionData
\* reads the rows of every country
TimelineRows ==
    IF op = "getTagRacingData" THEN ScopeRows(arg.selectedCountry)
    ELSE Flat(videoData, videoKeys)

\* the tag occurrences of rows: for every row with tags and a trending date
\* the first 8 tokens that the cleaning keeps
TimelineOccurrences(rows) ==
    LET used == SelectSeq(rows, LAMBDA v : Get(v, K_tags) \notin {Undefined, <<>>} /\ HasDate(v))
    IN  Concat([i \in 1..Len(used) |->
                   LET kept == SelectSeq(TokensOf(used[i][K_tags]), KeptAsAmended)
                   IN  SubSeq(kept, 1, Min(8, Len(kept)))],
               1, Len(used))

ReturnedTotal(tag) ==
    IF op = "getTagRacingData"
    THEN SumSeq(SubSeq([p \in 1..Len(ret.racingData) |->
                           LET tags == ret.racingData[p].tags
                           IN  SumSeq(SubSeq([i \in 1..Len(tags) |->
                                                 IF tags[i].tag = tag THEN tags[i].count ELSE 0],
                                             1, Len(tags)), 1, Len(tags))],
                       1, Len(ret.racingData)), 1, Len(ret.racingData))
    ELSE SumSeq(SubSeq([k \in 1..Len(ret.timelineData) |->
                           LET timeline == ret.timelineData[k].timeline
                           IN  IF ret.timelineData[k].tag = tag
                               THEN SumSeq(SubSeq([d \in 1..Len(timeline) |-> timeline[d].count],
                                                  1, Len(timeline)), 1, Len(timeline))
                               ELSE 0],
                       1, Len(ret.timelineData)), 1, Len(ret.timelineData))

\* C17: in getTagRacingData and getTagEvolutionData a row gives at most 8 tag
\* occurrences, its first 8 tokens that the cleaning keeps: the count of
\* every returned tag is its number of occurrences among them, and the counts
\* of all tags together are at most 8 times the number of rows in scope
C17_EightTagsPerRow ==
    op \in {"getTagRacingData", "getTagEvolutionData"} =>
        LET occ == TimelineOccurrences(TimelineRows)
            counts == SubSeq([i \in 1..Len(ret.tags) |-> ReturnedTotal(ret.tags[i])],
                             1, Len(ret.tags))
        IN  /\ \A i \in 1..Len(ret.tags) :
                  counts[i] = Len(SelectSeq(occ, LAMBDA o : o = ret.tags[i]))
            /\ SumSeq(counts, 1, Len(counts)) <= 8 * Len(TimelineRows)

\* C17: a returned tag is also the ninth kept token of a row in scope
C17_Witness ==
    /\ op \in {"getTagRacingData", "getTagEvolutionData"}
    /\ \E i \in 1..Len(TimelineRows) :
          /\ Get(TimelineRows[i], K_tags) \notin {Undefined, <<>>}
          /\ HasDate(TimelineRows[i])
          /\ LET kept == SelectSeq(TokensOf(TimelineRows[i][K_tags]), KeptAsAmended)
             IN  Len(kept) > 8 /\ kept[9] \in Elements(ret.tags)

\* C18: getTagRacingData and getTagEvolutionData take a country scope: called
\* for one country each counts only the tags of the rows of that country, and
\* called with "global" the rows of all countries
C18_CountryScope ==
    op \in {"getTagRacingData", "getTagEvolutionData"} =>
        LET occ == TimelineOccurrences(ScopeRows(arg.selectedCountry))
        IN  \A i \in 1..Len(ret.tags) :
                ReturnedTotal(ret.tags[i]) = Len(SelectSeq(occ, LAMBDA o : o = ret.tags[i]))

\* the ISO 8601 week of day number t: the week, Monday to Sunday, of the
\* year that holds the Thursday of the week, as [year, week]
IsoWeekOf(t) ==
    LET weekday  == ((t + 3) % 7) + 1
        thursday == t - weekday + 4
        year     == CivilFromDays(thursday).year
    IN  [year |-> year, week |-> ((thursday - DaysFromCivil(year, 1, 1)) \div 7) + 1]

\* the label of week n of a year
WeekLabel(n) ==
    <<"W", "e", "e", "k", " ">> \o
    (IF n < 10 THEN <<Digits[n + 1]>> ELSE <<Digits[(n \div 10) + 1], Digits[(n % 10) + 1]>>)

\* C19: getTagRacingData groups the rows by the ISO week of their trending
\* date: two rows are in the same period if and only if their dates are in
\* the same ISO week, and the label of the period carries that week's number
C19_IsoWeeks ==
    op = "getTagRacingData" =>
        LET rows == SelectSeq(ScopeRows(arg.selectedCountry),
                        LAMBDA v : /\ Get(v, K_tags) \notin {Undefined, <<>>}
                                   /\ HasDate(v)
                                   /\ v[K_trending_date_parsed].kind = "date")
            weeks == {IsoWeekOf(rows[i][K_trending_date_parsed].t) : i \in 1..Len(rows)}
        IN  /\ Elements(ret.periods) \ {<<"W", "e", "e", "k", " ", "N", "a", "N">>}
                   = {WeekLabel(w.week) : w \in weeks}
            /\ Cardinality(Elements(ret.periods) \ {<<"W", "e", "e", "k", " ", "N", "a", "N">>})
                   = Cardinality(weeks)

\* min(100, 100 * a / b) on integers a and b, as a fraction
PercentCapped(a, b) ==
    LET x == Quotient(100 * a, b)
    IN  IF x.kind = "number" /\ ScoreLess(Quotient(100, 1), x) THEN Quotient(100, 1)
        ELSE IF x.kind = "infinity" /\ x.num > 0 THEN Quotient(100, 1)
        ELSE x

\* C20: for every cell that getPublishingTimingData returns, for any loaded
\* rows, successRate is in the range 0 to 100; it is 0 for a cell with no
\* videos and else min(100, 100 * average views of the cell / average views
\* of all cells' videos)
C20_SuccessRate ==
    op = "getPublishingTimingData" =>
        LET n == Len(ret.data)
            totalViews == SumSeq(SubSeq([c \in 1..n |-> ret.data[c].totalViews], 1, n), 1, n)
            totalVideos == SumSeq(SubSeq([c \in 1..n |-> ret.data[c].count], 1, n), 1, n)
        IN  \A c \in 1..n :
                LET cell == ret.data[c]
                IN  /\ cell.successRate.kind = "number"
                    /\ ~ScoreLess(cell.successRate, Quotient(0, 1))
                    /\ ~ScoreLess(Quotient(100, 1), cell.successRate)
                    /\ cell.successRate =
                          IF cell.count = 0 THEN Quotient(0, 1)
                          ELSE PercentCapped(cell.totalViews * totalVideos, cell.count * totalViews)

-----------------------------------------------------------------------------
(* DataLoader: getHeatmapData, and the channel methods *)

\* the characters of the code units 32 to 95, in their order
CodeUnitsFrom32 ==
    <<" ", "!", "\"", "#", "$", "%", "&", "'", "(", ")", "*", "+", ",", "-", ".", "/",
      "0", "1", "2", "3", "4", "5", "6", "7", "8", "9", ":", ";", "<", "=", ">", "?",
      "@", "A", "B", "C", "D", "E", "F", "G", "H", "I", "J", "K", "L", "M", "N", "O",
      "P", "Q", "R", "S", "T", "U", "V", "W", "X", "Y", "Z", "[", "\\", "]", "^", "_">>

\* the characters of the code units 97 to 126, in their order
CodeUnitsFrom97 ==
    <<"a", "b", "c", "d", "e", "f", "g", "h", "i", "j", "k", "l", "m", "n", "o",
      "p", "q", "r", "s", "t", "u", "v", "w", "x", "y", "z", "{", "|", "}", "~">>

\* c.charCodeAt(0) for a character of these two ranges
CharCode(c) ==
    IF \E i \in 1..Len(CodeUnitsFrom32) : CodeUnitsFrom32[i] = c
    THEN 31 + CHOOSE i \in 1..Len(CodeUnitsFrom32) : CodeUnitsFrom32[i] = c
    ELSE 96 + CHOOSE i \in 1..Len(CodeUnitsFrom97) : CodeUnitsFrom97[i] = c

\* a < b for two strings, as Array.prototype.sort() without a comparator
\* orders them: by code unit, a proper prefix first
StringLess(a, b) ==
    \E i \in 1..(Len(b)) :
        /\ \A j \in 1..(i - 1) : j <= Len(a) /\ a[j] = b[j]
        /\ \/ i = Len(a) + 1
           \/ i <= Len(a) /\ CharCode(a[i]) < CharCode(b[i])

\* Array.from(set).sort() for a set of strings
SortedStrings(S) ==
    [k \in 1..Cardinality(S) |-> CHOOSE s \in S : Cardinality({u \in S : StringLess(u, s)}) = k - 1]

\* the categories of getHeatmapData as a mutant: 'Unknown' is left out
allCategoriesKnown(data, keys) ==
    LET videos == Flat(data, keys)
    IN  SortedStrings({videos[i][K_category_name] : i \in 1..Len(videos)} \ {<<>>, S_Unknown})

\* the names in allCategories, sorted: every truthy category_name of a row
allCategories(data, keys) ==
    LET videos == Flat(data, keys)
    IN  SortedStrings({videos[i][K_category_name] : i \in 1..Len(videos)} \ {<<>>})

\* one entry per country, in the order of Object.keys(this.videoData), and
\* category; value is (count / totalVideos) * 100, or 0 for no rows
getHeatmapData(data, keys) ==
    LET categoryNames == allCategories(data, keys)
        point(country, category) ==
            LET countryVideos == data[country]
                count == Len(SelectSeq(countryVideos, LAMBDA v : v[K_category_name] = category))
                totalVideos == Len(countryVideos)
            IN  [country     |-> country,
                 category    |-> category,
                 value       |-> IF totalVideos > 0 THEN Quotient(100 * count, totalVideos)
                                 ELSE Quotient(0, 1),
                 count       |-> count,
                 totalVideos |-> totalVideos]
        n == Len(categoryNames)
    IN  [data       |-> [p \in 1..(Len(keys) * n) |->
                            point(keys[((p - 1) \div n) + 1], categoryNames[((p - 1) % n) + 1])],
         categories |-> categoryNames,
         countries  |-> keys]

\* Array.from(new Set(seq)): the distinct elements in the order they first occur
ArrayFromSet(seq) ==
    LET firsts == {i \in 1..Len(seq) : \A j \in 1..(i - 1) : seq[j] # seq[i]}
    IN  [k \in 1..Cardinality(firsts) |->
            seq[CHOOSE i \in firsts : Cardinality({j \in firsts : j < i}) = k - 1]]

\* the channels of every country: one entry per channel_title in the order of
\* Object.values(channelData), then sorted by totalViews, the largest first
getAllChannels(data, keys) ==
    LET videos == Flat(data, keys)
        names  == ChannelKeys(videos)
        entry(k) ==
            LET of == SelectSeq(videos, LAMBDA v : KeyOf(Get(v, K_channel_title)) = k)
            IN  [name       |-> Get(of[1], K_channel_title),
                 videoCount |-> Len(of),
                 totalViews |-> SumViews(of),
                 countries  |-> ArrayFromSet([i \in 1..Len(of) |-> of[i][K_country]])]
        sorted(list) == SortDesc(list, [i \in 1..Len(list) |-> list[i].totalViews])
    IN  sorted(SubSeq([i \in 1..Len(names) |-> entry(names[i])], 1, Len(names)))

getTopChannels(data, keys, limit) == Slice(getAllChannels(data, keys), limit)

\* getChannelsByCountry as a mutant: the channels of every country
getChannelsByCountryUnfiltered(data, keys, country, limit) ==
    Slice(getAllChannels(data, keys), limit)

\* channel.countries.includes(country), then slice(0, limit)
getChannelsByCountry(data, keys, country, limit) ==
    Slice(SelectSeq(getAllChannels(data, keys),
                    LAMBDA channel : \E i \in 1..Len(channel.countries) : channel.countries[i] = country),
          limit)

-----------------------------------------------------------------------------
(* The calls of getHeatmapData and of the channel methods, on what the     *)
(* loader has stored                                                       *)

CallGetHeatmapData ==
    /\ op = "none"
    /\ op' = "getHeatmapData"
    /\ arg' = <<>>
    /\ ret' = getHeatmapData(videoData, videoKeys)
    /\ UNCHANGED <<Loader, again, App>>

CallGetTopChannels ==
    /\ op = "none"
    /\ \E limit \in Limits :
        /\ op' = "getTopChannels"
        /\ arg' = [limit |-> limit]
        /\ ret' = getTopChannels(videoData, videoKeys, limit)
        /\ UNCHANGED <<Loader, again, App>>

CallGetChannelsByCountry ==
    /\ op = "none"
    /\ \E country \in Countries \cup {NeverLoaded}, limit \in Limits :
        /\ op' = "getChannelsByCountry"
        /\ arg' = [country |-> country, limit |-> limit]
        /\ ret' = getChannelsByCountry(videoData, videoKeys, country, limit)
        /\ UNCHANGED <<Loader, again, App>>

NextChannels ==
    \/ LoadCategories
    \/ \E c \in Countries : LoadVideos(c)
    \/ CallGetHeatmapData
    \/ CallGetTopChannels
    \/ CallGetChannelsByCountry

SpecChannels == InitAgg /\ [][NextChannels]_vars

-----------------------------------------------------------------------------
(* Claims about getHeatmapData and the channel methods, checked under      *)
(* SpecChannels                                                            *)

\* the entries of a heatmap result for one country
HeatmapEntries(c) == SelectSeq(ret.data, LAMBDA e : e.country = c)

\* C21: for every country of getHeatmapData's result, each entry's count is
\* the number of the country's rows of its category and its totalVideos the
\* number of the country's rows; the counts of the country's entries sum to
\* that number; if the country has a row its percentages sum to 100, and
\* if it has none every percentage is 0
C21_HeatmapSums ==
    op = "getHeatmapData" =>
        \A c \in DOMAIN videoData :
            LET entries == HeatmapEntries(c)
                total   == Len(videoData[c])
            IN  /\ \A i \in 1..Len(entries) :
                      /\ entries[i].totalVideos = total
                      /\ entries[i].count =
                            Cardinality({k \in 1..total :
                                videoData[c][k][K_category_name] = entries[i].category})
                      /\ entries[i].value.kind = "number"
                /\ SumSeq([i \in 1..Len(entries) |-> entries[i].count], 1, Len(entries)) = total
                /\ (total > 0 =>
                      SumSeq([i \in 1..Len(entries) |->
                                entries[i].value.num * (total \div entries[i].value.den)],
                             1, Len(entries)) = 100 * total)
                /\ (total = 0 => \A i \in 1..Len(entries) : entries[i].value = Quotient(0, 1))

\* C21 (witness): a heatmap of a country whose rows are of two categories and
\* of a country that has no rows
C21_Witness ==
    /\ op = "getHeatmapData"
    /\ \E c \in DOMAIN videoData :
          /\ Len(videoData[c]) = 0
          /\ Len(HeatmapEntries(c)) >= 2
    /\ \E c \in DOMAIN videoData :
          \E i, j \in 1..Len(HeatmapEntries(c)) :
              /\ i # j
              /\ HeatmapEntries(c)[i].count > 0
              /\ HeatmapEntries(c)[j].count > 0

\* the rows of every country that a channel entry of a result stands for
RowsOfChannel(channel) ==
    SelectSeq(Flat(videoData, videoKeys), LAMBDA v : Get(v, K_channel_title) = channel.name)

\* the channel names of the loaded rows a call of a channel method is to
\* choose from: all of them, or those with a row of the given country
ChannelsInScope ==
    LET videos == Flat(videoData, videoKeys)
    IN  {Get(videos[i], K_channel_title) : i \in
            {i \in 1..Len(videos) :
                op = "getChannelsByCountry" =>
                    \E j \in 1..Len(videos) :
                        /\ Get(videos[j], K_channel_title) = Get(videos[i], K_channel_title)
                        /\ videos[j][K_country] = arg.country}}

\* C23: getTopChannels(limit) and getChannelsByCountry(country, limit) return
\* at most limit channels, the ones of the largest totalViews, in
\* non-increasing order of totalViews; a channel's totalViews and videoCount
\* are the sums over all of its rows, its countries are exactly the countries
\* it has rows in, each once, and a channel of getChannelsByCountry has the
\* given country among them
C23_TopChannels ==
    op \in {"getTopChannels", "getChannelsByCountry"} =>
        /\ Len(ret) = Min(arg.limit, Cardinality(ChannelsInScope))
        /\ \A i \in 1..Len(ret) :
              LET rows == RowsOfChannel(ret[i])
                  listed == {ret[i].countries[k] : k \in 1..Len(ret[i].countries)}
              IN  /\ ret[i].name \in ChannelsInScope
                  /\ \A j \in 1..(i - 1) : ret[j].totalViews >= ret[i].totalViews
                  /\ \A j \in 1..(i - 1) : ret[j].name # ret[i].name
                  /\ ret[i].totalViews = SumViews(rows)
                  /\ ret[i].videoCount = Len(rows)
                  /\ listed = {rows[k][K_country] : k \in 1..Len(rows)}
                  /\ Cardinality(listed) = Len(ret[i].countries)
                  /\ (op = "getChannelsByCountry" => arg.country \in listed)
        /\ \A name \in ChannelsInScope :
              (\A i \in 1..Len(ret) : ret[i].name # name) =>
                  \A i \in 1..Len(ret) :
                      ret[i].totalViews >= SumViews(RowsOfChannel([name |-> name]))

\* C23 (witness): getChannelsByCountry leaves out a channel that has no row in
\* the country, the limit leaves out another, and a returned channel of
\* several rows has rows in two countries
C23_Witness ==
    /\ op = "getChannelsByCountry"
    /\ Len(ret) = arg.limit
    /\ Cardinality(ChannelsInScope) > arg.limit
    /\ \E i \in 1..Len(Flat(videoData, videoKeys)) :
          Get(Flat(videoData, videoKeys)[i], K_channel_title) \notin ChannelsInScope
    /\ \E i \in 1..Len(ret) : ret[i].videoCount > 1 /\ Len(ret[i].countries) = 2

-----------------------------------------------------------------------------
(* Claims about the timeline and the scatter sample, checked under SpecAgg *)

\* the rows a call's country argument selects that have a parsed trending date
DatedInScope ==
    SelectSeq(VideosOf(videoData, videoKeys, arg.country),
              LAMBDA v : HasDate(v) /\ v[K_trending_date_parsed].kind = "date")

\* C22: getTimelineDataByCountry returns one entry per distinct trending day
\* of the dated rows in scope, in ascending order of date; an entry's count is
\* the number of those rows on its day and its totalViews the sum of their
\* views, so that the counts sum to the number of dated rows in scope
C22_TimelineByDay ==
    op = "getTimelineDataByCountry" =>
        /\ ~ret.threw
        /\ LET rows == DatedInScope
               days == SortedDays({rows[i][K_trending_date_parsed].t : i \in 1..Len(rows)})
               on(k) == SelectSeq(rows, LAMBDA v : v[K_trending_date_parsed].t = days[k])
           IN  /\ Len(ret.value) = Len(days)
               /\ \A k \in 1..Len(days) :
                     /\ ret.value[k].date.t = days[k]
                     /\ ret.value[k].count = Len(on(k))
                     /\ ret.value[k].totalViews = SumViews(on(k))
               /\ SumSeq([k \in 1..Len(ret.value) |-> ret.value[k].count], 1, Len(ret.value))
                     = Len(rows)

\* the rows in the scope of a getViewsVsLikes call that pass its filters
PassingRows ==
    LET bound(name, default) ==
            IF name \in DOMAIN arg.filters THEN arg.filters[name] ELSE default
    IN  SelectSeq(Selected, LAMBDA v :
            /\ v[K_views] > 0 /\ v[K_likes] > 0
            /\ v[K_views] >= bound("minViews", 0) /\ v[K_likes] >= bound("minLikes", 0)
            /\ v[K_views] <= bound("maxViews", v[K_views])
            /\ v[K_likes] <= bound("maxLikes", v[K_likes]))

\* C29: the items getViewsVsLikes returns are the items of passing rows of
\* the selected scope, no row taken twice (the items can be matched one to
\* one with distinct passing rows), and when the passing rows are at most
\* sampleSize every one of them is returned
C29_SampleWithoutRepetition ==
    op = "getViewsVsLikes" =>
        /\ ~ret.threw
        /\ \E p \in [1..Len(ret.value) -> 1..Len(PassingRows)] :
              /\ \A i, j \in 1..Len(ret.value) : p[i] = p[j] => i = j
              /\ \A i \in 1..Len(ret.value) : ret.value[i] = ScatterItem(PassingRows[p[i]])
        /\ (Len(PassingRows) <= arg.sampleSize => Len(ret.value) = Len(PassingRows))

\* C29 (witness): a sample of two of the three or more passing rows of one
\* country's file loaded for two countries
C29_Witness ==
    /\ op = "getViewsVsLikes"
    /\ arg.sampleSize = 2
    /\ Len(ret.value) = 2
    /\ Len(PassingRows) > 2
    /\ ret.value[1].country # ret.value[2].country

-----------------------------------------------------------------------------
(* Claims about the periods of getTagRacingData, checked under SpecTags *)

\* the rows of a getTagRacingData call that are put into a period: the rows
\* in scope that have tags and a trending date that is a calendar day
PeriodRows ==
    SelectSeq(ScopeRows(arg.selectedCountry),
              LAMBDA v : /\ Get(v, K_tags) \notin {Undefined, <<>>}
                         /\ HasDate(v)
                         /\ v[K_trending_date_parsed].kind = "date")

\* the number in a label "Week <n>"
WeekOfLabel(label) == CHOOSE n \in 1..54 : WeekLabel(n) = label

\* C30: the periods of getTagRacingData that carry a week number are in
\* ascending order of that number, racingData has the periods in the same
\* order, and the rows of one period are of one year and of one calendar
\* week (Monday to Sunday)
C30_PeriodsByWeekNumber ==
    op = "getTagRacingData" =>
        LET numbered == SelectSeq(ret.periods, LAMBDA l : \E n \in 1..54 : WeekLabel(n) = l)
            rows     == PeriodRows
            day(i)   == rows[i][K_trending_date_parsed].t
        IN  /\ \A i, j \in 1..Len(numbered) :
                  i < j => WeekOfLabel(numbered[i]) < WeekOfLabel(numbered[j])
            /\ Len(ret.racingData) = Len(ret.periods)
            /\ \A p \in 1..Len(ret.periods) : ret.racingData[p].period = ret.periods[p]
            /\ \A i, j \in 1..Len(rows) :
                  periodKey(rows[i][K_trending_date_parsed], arg.dstHours)
                      = periodKey(rows[j][K_trending_date_parsed], arg.dstHours)
                  => /\ CivilFromDays(day(i)).year = CivilFromDays(day(j)).year
                     /\ IsoWeekOf(day(i)) = IsoWeekOf(day(j))

-----------------------------------------------------------------------------
(* Claims about the order of the two loads of init, checked under Spec *)

\* C26: once a video fetch of init has been started every category callback
\* has returned, so this.categories has its final value when a file is
\* parsed: every stored row's category_name is the title its country's map,
\* as it is now, gives for the row's category_id, or 'Unknown'
C26_CategoriesBeforeVideos ==
    /\ (\E c \in Countries : vidFetch[c].at # "idle") =>
          \A c \in Countries : catFetch[c].at \in {"done", "failed"}
    /\ \A c \in DOMAIN videoData :
          \A i \in 1..Len(videoData[c]) :
              videoData[c][i][K_category_name] =
                  IF /\ c \in DOMAIN categories
                     /\ videoData[c][i][K_category_id] \in DOMAIN categories[c]
                     /\ categories[c][videoData[c][i][K_category_id]] \notin {Undefined, <<>>}
                  THEN categories[c][videoData[c][i][K_category_id]]
                  ELSE S_Unknown

\* C26 (witness): a file has been parsed into rows, one of them named by its
\* country's map, while the category file of another country failed to load
C26_Witness ==
    /\ \E c \in Countries : catFetch[c].at = "failed"
    /\ \E c \in DOMAIN videoData :
          /\ catFetch[c].at = "done"
          /\ \E i \in 1..Len(videoData[c]) : videoData[c][i][K_category_name] # S_Unknown
          /\ \E i \in 1..Len(videoData[c]) : videoData[c][i][K_category_name] = S_Unknown

-----------------------------------------------------------------------------
(* Every aggregation method, called on what the loader has stored and then *)
(* called once more with the same arguments.  An array is kept with the    *)
(* place it lives in, so that a sort in place can be told from a sort of a *)
(* copy: ref is the country whose array this.videoData[ref] it is, or      *)
(* "new" for an array the call has created.                                *)

ArrayOf(ref, items) == [ref |-> ref, items |-> items]

\* filter as a mutant: the rows are removed from the array itself
ArrayFilterInPlace(array, kept) == ArrayOf(array.ref, kept)

\* array.filter(...): a new array of the elements kept
ArrayFilter(array, kept) == ArrayOf("new", kept)

\* the variable videos of getViewsVsLikes: the array flat() creates, the
\* stored array of the country, or a new empty array
scatterVideos(data, keys, country) ==
    IF country = "all" THEN ArrayOf("new", Flat(data, keys))
    ELSE IF country \in DOMAIN data THEN ArrayOf(country, data[country])
    ELSE ArrayOf("new", <<>>)

\* this.videoData after array.sort(...) has left the array in the order items
StoreAfterSort(data, array, items) ==
    IF array.ref = "new" THEN data ELSE [data EXCEPT ![array.ref] = items]

\* this.videoData after array.sort(() => 0.5 - Math.random()): the array is
\* left in some permutation
StoresAfterShuffle(data, array) ==
    IF array.ref = "new" THEN {data}
    ELSE LET n == Len(array.items)
         IN  {StoreAfterSort(data, array, [i \in 1..n |-> array.items[p[i]]]) :
                p \in Arrangements(n, n)}

\* every this.videoData a call can leave: getViewsVsLikes and
\* getTopVideosByViews sort an array in place, the other methods sort only
\* arrays made by Object.keys, Object.values, Object.entries and Array.from
StoresAfter(method, a, data, keys) ==
    CASE method = "getViewsVsLikes" ->
            LET videos  == scatterVideos(data, keys, a.country)
                passing == SelectSeq(videos.items, LAMBDA v : PassesFilters(v, a.filters))
            IN  StoresAfterShuffle(data, ArrayFilter(videos, passing))
      [] method = "getTopVideosByViews" ->
            LET allVideos == ArrayOf("new", Flat(data, keys))
            IN  {StoreAfterSort(data, allVideos,
                    SortDesc(allVideos.items,
                             [i \in 1..Len(allVideos.items) |-> allVideos.items[i][K_views]]))}
      [] OTHER -> {data}

GetMethods ==
    {"getViewsByCountry", "getCategoryDistributionByCountry", "getViewsVsLikes",
     "getTimelineData", "getTimelineDataByCountry", "getTopVideosByViews",
     "getTopChannelsByEngagement", "getTopChannels", "getChannelsByCountry",
     "getHeatmapData", "getTagFlowData", "getTagRacingData", "getTagEvolutionData",
     "getPublishingTimingData"}

\* the arguments, and the time zone of the run, a method is called with
ArgsOf(method) ==
    CASE method = "getViewsByCountry" -> {<<>>}
      [] method = "getCategoryDistributionByCountry" -> [country : CountryArgs]
      [] method = "getViewsVsLikes" ->
            [sampleSize : SampleSizes, country : CountryArgs, filters : ScatterFilters]
      [] method = "getTimelineData" -> [zone : TimeZones]
      [] method = "getTimelineDataByCountry" -> [country : CountryArgs, zone : TimeZones]
      [] method = "getTopVideosByViews" -> [limit : Limits]
      [] method = "getTopChannelsByEngagement" -> [limit : Limits]
      [] method = "getTopChannels" -> [limit : Limits]
      [] method = "getChannelsByCountry" -> [country : Countries \cup {NeverLoaded}, limit : Limits]
      [] method = "getHeatmapData" -> {<<>>}
      [] method = "getTagFlowData" ->
            [selectedCountry : TagCountryArgs, filterType : FlowFilterTypes]
      [] method = "getTagRacingData" ->
            [filterType : TimelineFilterTypes, selectedCountry : TagCountryArgs, dstHours : DstHours]
      [] method = "getTagEvolutionData" -> [filterType : TimelineFilterTypes]
      [] method = "getPublishingTimingData" -> [selectedCountry : {"global"}, tzHours : TzHours]

\* every outcome the call method(a) can have on the stored data
Invoke(method, a, data, keys) ==
    CASE method = "getViewsByCountry" -> {Returned(getViewsByCountry(data))}
      [] method = "getCategoryDistributionByCountry" ->
            {Returned(getCategoryDistributionByCountry(data, keys, a.country))}
      [] method = "getViewsVsLikes" ->
            {Returned(sampled) :
                sampled \in getViewsVsLikes(data, keys, a.sampleSize, a.country, a.filters)}
      [] method = "getTimelineData" -> {getTimelineData(data, keys, a.zone)}
      [] method = "getTimelineDataByCountry" ->
            {getTimelineDataByCountry(data, keys, a.country, a.zone)}
      [] method = "getTopVideosByViews" -> {getTopVideosByViews(data, keys, a.limit)}
      [] method = "getTopChannelsByEngagement" -> getTopChannelsByEngagement(data, keys, a.limit)
      [] method = "getTopChannels" -> {getTopChannels(data, keys, a.limit)}
      [] method = "getChannelsByCountry" -> {getChannelsByCountry(data, keys, a.country, a.limit)}
      [] method = "getHeatmapData" -> {getHeatmapData(data, keys)}
      [] method = "getTagFlowData" -> {getTagFlowData(data, keys, a.selectedCountry, a.filterType)}
      [] method = "getTagRacingData" ->
            {getTagRacingData(data, keys, a.filterType, a.selectedCountry, a.dstHours)}
      [] method = "getTagEvolutionData" -> {getTagEvolutionData(data, keys, a.filterType)}
      [] method = "getPublishingTimingData" ->
            {getPublishingTimingData(data, keys, a.selectedCountry, a.tzHours)}

\* the second outcome as a mutant: the engine orders incomparable elements
\* anew on every call
AnyOutcome(method, first, possible) == possible

\* the outcomes of a second call whose first call had the outcome first: a
\* choice by Math.random is made anew, while the order in which the engine's
\* sort leaves elements its comparator cannot compare is a function of the
\* array, the same in both calls
SecondOutcomes(method, first, possible) ==
    IF method = "getViewsVsLikes" THEN possible ELSE {first}

\* a get method is called on the stored data
CallGetMethod ==
    /\ op = "none"
    /\ \E method \in GetMethods :
        \E a \in ArgsOf(method) :
            /\ op' = method
            /\ arg' = a
            /\ ret' \in Invoke(method, a, videoData, videoKeys)
            /\ videoData' \in StoresAfter(method, a, videoData, videoKeys)
    /\ UNCHANGED <<categories, videoKeys, isLoaded, catFetch, vidFetch, results, pc, again, App>>

\* the same call is made once more
CallAgain ==
    /\ op \in GetMethods
    /\ again = NotCalled
    /\ \E outcome \in SecondOutcomes(op, ret, Invoke(op, arg, videoData, videoKeys)) :
          again' = Second(outcome)
    /\ videoData' \in StoresAfter(op, arg, videoData, videoKeys)
    /\ UNCHANGED <<categories, videoKeys, isLoaded, catFetch, vidFetch, results, pc, Call, App>>

NextGet ==
    \/ LoadCategories
    \/ \E c \in Countries : LoadVideos(c)
    \/ CallGetMethod
    \/ CallAgain

SpecGet == InitAgg /\ [][NextGet]_vars

-----------------------------------------------------------------------------
(* Claims about the aggregation methods as a whole, checked under SpecGet  *)

-----------------------------------------------------------------------------
(* YouTubeDataVisualization: loading, the switch between charts and the    *)
(* resize handler.  The listeners are set up at the start of init(), in    *)
(* the task that constructs the object, so clicks and resize events are    *)
(* handled from the first state on, also while init() waits for the        *)
(* loader.  Time passes in the steps of Pass while a timer is pending, and *)
(* a timer's callback runs no earlier than its delay.                      *)

\* the delay of the resize handler's timer, in milliseconds
ResizeDelay == 250

\* at most so many clicks and resize events are handled
MaxEvents == 4

\* the charts of the model, and the data-viz attribute of an element that has
\* none
VizTypes == {"overview", "bar-chart", "heatmap"}

NullViz == "null"

\* the lengths of time that pass between two events, in milliseconds
WaitSteps == {100, 250}

\* DataLoader.init runs from its call to its return of true: the category
\* files are all alike or none loads, and every country's file is the same
DataLoaderInit ==
    /\ pc = "new"
    /\ op = "none"
    /\ \E cats \in AggCategoryStates, text \in LoadTexts :
          /\ categories' = cats
          /\ catFetch' = [c \in Countries |->
                            [at |-> IF c \in DOMAIN cats THEN "done" ELSE "failed", body |-> <<>>]]
          /\ videoData' = [c \in Countries |-> parseCSV(text, c, cats)]
          /\ vidFetch' = [c \in Countries |-> [at |-> "done", body |-> text]]
          /\ results' = [c \in Countries |->
                            [country |-> c, success |-> TRUE, count |-> Len(videoData'[c])]]
    /\ videoKeys' = SubSeq(CountryList, Len(CountryList) - NumCountries + 1, Len(CountryList))
    /\ isLoaded' = TRUE
    /\ pc' = "done"
    /\ UNCHANGED <<Call, again, App>>

\* init() resumes after await this.dataLoader.init(...) with success true
InitResumes ==
    /\ pc = "done"
    /\ ~isDataLoaded
    /\ isDataLoaded' = TRUE
    /\ UNCHANGED <<Loader, Call, again, currentVisualization, resizeTimeout, timers, seen>>

\* renderVisualization(vizType) of a chart: its container exists
Rendered(vizType) == IF vizType \in VizTypes \ {"overview"} THEN 1 ELSE 0

\* switchVisualization as a mutant: the chart is switched while data loads
SwitchVisualizationUnguarded(vizType) ==
    /\ seen.events < MaxEvents
    /\ IF vizType \notin VizTypes
       THEN /\ seen' = [seen EXCEPT !.events = @ + 1, !.last = "click", !.asked = vizType]
            /\ UNCHANGED currentVisualization
       ELSE /\ currentVisualization' = vizType
            /\ seen' = [seen EXCEPT !.events = @ + 1, !.last = "click", !.asked = vizType,
                                    !.renders = @ + Rendered(vizType)]
    /\ UNCHANGED <<Loader, Call, again, isDataLoaded, resizeTimeout, timers>>

\* a click on a navigation button: switchVisualization(vizType).  While the
\* data is not loaded another chart than the overview is refused; for a
\* vizType no button carries, document.querySelector(...) is null and the
\* method throws before it assigns currentVisualization
SwitchVisualization(vizType) ==
    /\ seen.events < MaxEvents
    /\ IF ~isDataLoaded /\ vizType # "overview"
       THEN /\ seen' = [seen EXCEPT !.events = @ + 1, !.last = "click", !.asked = vizType,
                                    !.refused = @ + 1]
            /\ UNCHANGED currentVisualization
       ELSE IF vizType \notin VizTypes
       THEN /\ seen' = [seen EXCEPT !.events = @ + 1, !.last = "click", !.asked = vizType]
            /\ UNCHANGED currentVisualization
       ELSE /\ currentVisualization' = vizType
            /\ seen' = [seen EXCEPT !.events = @ + 1, !.last = "click", !.asked = vizType,
                                    !.renders = @ + Rendered(vizType)]
    /\ UNCHANGED <<Loader, Call, again, isDataLoaded, resizeTimeout, timers>>

\* the resize handler as a mutant: the pending timer is not cleared
ResizeEventWithoutClear ==
    /\ seen.events < MaxEvents
    /\ IF isDataLoaded /\ currentVisualization # "overview"
       THEN /\ resizeTimeout' = resizeTimeout + 1
            /\ timers' = timers \cup {[id |-> resizeTimeout', left |-> ResizeDelay]}
            /\ seen' = [seen EXCEPT !.events = @ + 1, !.last = "resize", !.quiet = 0, !.calls = 0,
                                    !.burst = IF timers = {} THEN 1 ELSE @ + 1]
       ELSE /\ seen' = [seen EXCEPT !.events = @ + 1, !.last = "resize"]
            /\ UNCHANGED <<resizeTimeout, timers>>
    /\ UNCHANGED <<Loader, Call, again, currentVisualization, isDataLoaded>>

\* a resize event: the handler of window's resize.  clearTimeout cancels the
\* timer whose id is in resizeTimeout, if it is pending; setTimeout returns an
\* id no timer had before
ResizeEvent ==
    /\ seen.events < MaxEvents
    /\ IF isDataLoaded /\ currentVisualization # "overview"
       THEN /\ resizeTimeout' = resizeTimeout + 1
            /\ timers' = {t \in timers : t.id # resizeTimeout}
                            \cup {[id |-> resizeTimeout', left |-> ResizeDelay]}
            /\ seen' = [seen EXCEPT !.events = @ + 1, !.last = "resize", !.quiet = 0, !.calls = 0,
                                    !.burst = IF timers = {} THEN 1 ELSE @ + 1]
       ELSE /\ seen' = [seen EXCEPT !.events = @ + 1, !.last = "resize"]
            /\ UNCHANGED <<resizeTimeout, timers>>
    /\ UNCHANGED <<Loader, Call, again, currentVisualization, isDataLoaded>>

\* d milliseconds pass while a timer is pending, no timer being overdue
Pass(d) ==
    /\ timers # {}
    /\ \A t \in timers : d <= t.left
    /\ timers' = {[id |-> t.id, left |-> t.left - d] : t \in timers}
    /\ seen' = [seen EXCEPT !.quiet = Min(@ + d, ResizeDelay), !.last = "wait"]
    /\ UNCHANGED <<Loader, Call, again, currentVisualization, isDataLoaded, resizeTimeout>>

\* the callback of a timer that is due: renderCurrentVisualization()
TimerFires ==
    /\ \E t \in timers :
          /\ t.left = 0
          /\ timers' = timers \ {t}
    /\ seen' = [seen EXCEPT !.calls = @ + 1, !.last = "timer",
                            !.renders = @ + Rendered(currentVisualization)]
    /\ UNCHANGED <<Loader, Call, again, currentVisualization, isDataLoaded, resizeTimeout>>

NextApp ==
    \/ DataLoaderInit
    \/ InitResumes
    \/ \E vizType \in VizTypes \cup {NullViz} : SwitchVisualization(vizType)
    \/ ResizeEvent
    \/ \E d \in WaitSteps : Pass(d)
    \/ TimerFires

SpecApp == InitAgg /\ [][NextApp]_vars

-----------------------------------------------------------------------------
(* Claims about the application, checked under SpecApp                     *)

\* C27: currentVisualization is "overview" unless isDataLoaded is true; a
\* click that asks for another chart while isDataLoaded is false leaves
\* currentVisualization as it was and renders nothing; and isDataLoaded is
\* true only once DataLoader.init has returned true, and stays true
C27_OverviewUntilLoaded ==
    /\ [](currentVisualization # "overview" => isDataLoaded)
    /\ [](isDataLoaded => (pc = "done" /\ isLoaded))
    /\ [][(seen'.last = "click" /\ seen'.events # seen.events
                /\ ~isDataLoaded /\ seen'.asked # "overview") =>
             (currentVisualization' = currentVisualization /\ seen'.renders = seen.renders)]_vars
    /\ [][isDataLoaded => isDataLoaded']_vars

\* a click that asked for a chart was refused while init() was waiting for
\* the loader, and the chart was switched to and rendered after the data had
\* been loaded
C27_Witness ==
    /\ isDataLoaded
    /\ currentVisualization = "heatmap"
    /\ seen.refused >= 1
    /\ seen.renders = 1
    /\ seen.last = "click"

\* the timer of the resize handler, as the handler leaves it when data is
\* loaded and a chart is shown
Debounced ==
    /\ Cardinality(timers) <= 1
    /\ \A t \in timers :
          /\ t.id = resizeTimeout
          /\ t.left = ResizeDelay - seen.quiet
          /\ seen.calls = 0
    /\ (resizeTimeout # 0 /\ timers = {}) => (seen.calls = 1 /\ seen.quiet = ResizeDelay)

\* C28 as stated: at most one timer is pending, and every resize event
\* cancels the timer that was pending
C28_EveryResizeCancels ==
    /\ [](Cardinality(timers) <= 1)
    /\ [][(seen'.last = "resize" /\ seen'.events # seen.events) =>
             \A t \in timers : t \notin timers']_vars

\* C28: at most one timer is pending; a resize event handled while data is
\* loaded and a chart is shown cancels the pending timer and sets one of 250
\* ms, so that the callback runs once, 250 ms after the last such event of a
\* burst; a resize event handled while data is not loaded or the overview is
\* shown sets no timer and leaves a pending one as it is
C28_DebouncedWhileChartShown ==
    /\ []Debounced
    /\ [][(seen'.last = "resize" /\ seen'.events # seen.events) =>
             IF isDataLoaded /\ currentVisualization # "overview"
             THEN /\ \A t \in timers : t \notin timers'
                  /\ \E t \in timers' : timers' = {t} /\ t.left = ResizeDelay
             ELSE timers' = timers /\ resizeTimeout' = resizeTimeout]_vars
    /\ [][seen'.calls # seen.calls /\ seen'.calls > 0 =>
             seen'.calls = 1 /\ seen.quiet = ResizeDelay]_vars

\* two resize events under 250 ms apart were handled while a chart was
\* shown, and the one callback of the burst has run
C28_Witness ==
    /\ seen.burst >= 2
    /\ seen.calls = 1
    /\ timers = {}
    /\ seen.last = "timer"
    /\ currentVisualization # "overview"

====
